---------------------------- MODULE Spec2Model ----------------------------
(***************************************************************************)
(* A model of the session-state layer of the Sahayak educational agent:    *)
(*   - the session document and the attendance tool that mutates it        *)
(*     (manager/sub_agents/attendance_agent/agent.py),                     *)
(*   - the manager tools that keep interaction_history (manager/agent.py), *)
(*   - session resolution against the session store (main.py).             *)
(*                                                                         *)
(* A session document is a Python dict: here a function from key strings   *)
(* to values.  A student name is a Python str: here a sequence of          *)
(* one-character strings, so that strip(), title() and lower() are         *)
(* computed character by character as Python computes them.  None is the   *)
(* value NoneVal.  The documents of these specifications hold only JSON    *)
(* values, for which clean_state_data's json.dumps test passes and the     *)
(* state is left as it is.                                                 *)
(***************************************************************************)
EXTENDS Integers, Sequences, FiniteSets, TLC

VARIABLES
    state,      \* tool_context.state: the session document of the tools
    today,      \* date.today().isoformat()
    clock,      \* datetime.now(): a logical time stamp
    ret,        \* the value returned by the last call
    store,      \* the session store: user id -> documents in creation order
    nextId,     \* the store's supply of fresh session ids
    appended,   \* history variable: every interaction entry ever appended
    calls,      \* number of tool calls made so far
    requests    \* the requests in flight: what each has read of the document

vars == <<state, today, clock, ret, store, nextId, appended, calls, requests>>

-----------------------------------------------------------------------------
(* Python values *)

NoneVal == "<None>"

\* Python truthiness of an optional string: None and "" are falsy.
Truthy(x) == x \notin {NoneVal, ""}

EmptyDict == <<>>

\* dict.get(key, default)
Get(d, k, default) == IF k \in DOMAIN d THEN d[k] ELSE default

\* d[key] = value
SetItem(d, k, v) == (k :> v) @@ d

-----------------------------------------------------------------------------
(* str methods, over sequences of characters *)

LowerChar(c) ==
    CASE c = "A" -> "a" [] c = "B" -> "b" [] c = "I" -> "i"
      [] c = "L" -> "l" [] c = "T" -> "t" [] OTHER -> c

UpperChar(c) ==
    CASE c = "a" -> "A" [] c = "b" -> "B" [] c = "i" -> "I"
      [] c = "l" -> "L" [] c = "t" -> "T" [] OTHER -> c

IsCased(c) == c \in {"a", "b", "i", "l", "t", "A", "B", "I", "L", "T"}

IsSpace(c) == c = " "

\* str.lower()
Lower(s) == [i \in DOMAIN s |-> LowerChar(s[i])]

\* str.title(): a cased character is upper-cased when it follows an uncased
\* one (or starts the string) and lower-cased when it follows a cased one.
Title(s) ==
    [i \in DOMAIN s |->
        IF i = 1 \/ ~IsCased(s[i - 1]) THEN UpperChar(s[i]) ELSE LowerChar(s[i])]

RECURSIVE LStrip(_)
LStrip(s) == IF s # <<>> /\ IsSpace(Head(s)) THEN LStrip(Tail(s)) ELSE s

RECURSIVE RStrip(_)
RStrip(s) ==
    IF s # <<>> /\ IsSpace(s[Len(s)]) THEN RStrip(SubSeq(s, 1, Len(s) - 1)) ELSE s

\* str.strip()
Strip(s) == RStrip(LStrip(s))

\* f"{n:04d}" for n >= 0
Pad4(n) ==
    IF n < 10 THEN "000" \o ToString(n)
    ELSE IF n < 100 THEN "00" \o ToString(n)
    ELSE IF n < 1000 THEN "0" \o ToString(n)
    ELSE ToString(n)

-----------------------------------------------------------------------------
(* The session document *)

DefaultPreferences ==
    [language |-> "english", difficulty_level |-> "medium", subjects |-> <<>>]

\* main.py: the default skeleton of a new session (no students_database key).
initialize_default_state ==
    [user_name |-> "",
     user_role |-> "",
     session_count |-> 0,
     preferences |-> DefaultPreferences,
     interaction_history |-> <<>>,
     attendance_records |-> EmptyDict]

\* datetime.now().isoformat(): the reading of the clock, as text
NowIso(tick) == "T" \o ToString(tick)

-----------------------------------------------------------------------------
(* save_attendance *)

\* Faulty variant of NewStudentId: the id is numbered by the roster size, without + 1.
NewStudentIdNoIncrement(students_db) ==
    "student_" \o Pad4(Cardinality(DOMAIN students_db))

\* f"student_{len(students_db) + 1:04d}"
NewStudentId(students_db) == "student_" \o Pad4(Cardinality(DOMAIN students_db) + 1)

StudentIdNo(n) == "student_" \o Pad4(n)

\* Faulty variant of RecordKey: the key is the date alone.
RecordKeyDateOnly(date_str, student_id) == date_str

\* f"{date_str}_{student_id}"
RecordKey(date_str, student_id) == date_str \o "_" \o student_id

\* The roster lookup loop: the first entry, in insertion order, whose name
\* equals student_name ignoring case; NoneVal when there is none.  Entries
\* are inserted under student_0001, student_0002, ... so insertion order is
\* the order of the numbers.
NameMatches(student_info, student_name) ==
    Lower(Get(student_info, "name", <<>>)) = Lower(student_name)

FindStudent(students_db, student_name) ==
    LET n == Cardinality(DOMAIN students_db)
        hits == {i \in 1..n : /\ StudentIdNo(i) \in DOMAIN students_db
                              /\ NameMatches(students_db[StudentIdNo(i)], student_name)}
    IN  IF hits = {} THEN NoneVal
        ELSE StudentIdNo(CHOOSE i \in hits : \A j \in hits : i <= j)

\* Faulty variant of NameRejected: the name is not stripped before the test.
NameRejectedNoStrip(student_name) == student_name = <<>>

\* The name check of save_attendance: not student_name or not student_name.strip()
NameRejected(student_name) == student_name = <<>> \/ Strip(student_name) = <<>>

\* student_name.strip().title()
NormalizeName(student_name) == Title(Strip(student_name))

\* Use today's date if not provided.
EffectiveDate(date_str, day) == IF Truthy(date_str) THEN date_str ELSE day

\* The new roster entry of lines 103-109.
NewStudent(s, student_name, grade, tick) ==
    [name |-> student_name,
     grade |-> IF Truthy(grade) THEN grade ELSE "Not specified",
     created_date |-> NowIso(tick),
     total_attendance_days |-> 0,
     created_by |-> Get(s, "user_name", "system")]

\* Faulty variant of GradeNeedsUpdate: the test that a grade was given is missing.
GradeNeedsUpdateAlways(student_info, grade) ==
    Get(student_info, "grade", NoneVal) # grade

\* Lines 93-132: the roster after the lookup, the creation of a new student
\* or the grade update of an existing one.  The grade update is made before
\* the duplicate check.
GradeNeedsUpdate(student_info, grade) ==
    Truthy(grade) /\ Get(student_info, "grade", NoneVal) # grade

RosterStep(s, student_name, grade, tick) ==
    LET students_db == Get(s, "students_database", EmptyDict)
        found == FindStudent(students_db, student_name)
    IN  IF found = NoneVal
        THEN LET sid == NewStudentId(students_db)
                 db2 == SetItem(students_db, sid,
                                NewStudent(s, student_name, grade, tick))
             IN  [student_id |-> sid, students_db |-> db2,
                  state |-> SetItem(s, "students_database", db2)]
        ELSE IF GradeNeedsUpdate(students_db[found], grade)
        THEN LET db2 == [students_db EXCEPT ![found].grade = grade]
             IN  [student_id |-> found, students_db |-> db2,
                  state |-> SetItem(s, "students_database", db2)]
        ELSE [student_id |-> found, students_db |-> students_db, state |-> s]

\* Lines 136-144.
AttendanceRecord(s, student_id, student_name, students_db, date_str, tick) ==
    [student_id |-> student_id,
     student_name |-> student_name,
     grade |-> students_db[student_id].grade,
     date |-> date_str,
     status |-> "present",
     timestamp |-> NowIso(tick),
     marked_by |-> Get(s, "user_name", "system")]

\* Faulty variant of MarkAttended: the counter is set to 1 instead of raised by 1.
MarkAttendedSetsOne(students_db, student_id, date_str) ==
    [students_db EXCEPT
        ![student_id] =
            SetItem(SetItem(@, "total_attendance_days", 1),
                    "last_attendance", date_str)]

\* Lines 159-160: the counter and last_attendance of the student.
MarkAttended(students_db, student_id, date_str) ==
    [students_db EXCEPT
        ![student_id] =
            SetItem(SetItem(@, "total_attendance_days",
                            Get(@, "total_attendance_days", 0) + 1),
                    "last_attendance", date_str)]

\* The whole tool: the document and the value it returns.
SaveAttendance(s, raw_name, grade, raw_date, day, tick) ==
    IF NameRejected(raw_name)
    THEN [state |-> s,
          ret |-> [action |-> "save_attendance", status |-> "error",
                   message |-> "Student name is required"]]
    ELSE
    LET date_str == EffectiveDate(raw_date, day)
        student_name == NormalizeName(raw_name)
        attendance_records == Get(s, "attendance_records", EmptyDict)
        r == RosterStep(s, student_name, grade, tick)
        record_key == RecordKey(date_str, r.student_id)
        attendance_record ==
            AttendanceRecord(s, r.student_id, student_name, r.students_db,
                             date_str, tick)
    IN  IF record_key \in DOMAIN attendance_records
        THEN [state |-> r.state,
              ret |-> [action |-> "save_attendance", status |-> "info",
                       student_id |-> r.student_id, date |-> date_str,
                       existing_record |-> attendance_records[record_key]]]
        ELSE LET db3 == MarkAttended(r.students_db, r.student_id, date_str)
                 rec3 == SetItem(attendance_records, record_key, attendance_record)
             IN  [state |-> SetItem(SetItem(r.state, "students_database", db3),
                                    "attendance_records", rec3),
                  ret |-> [action |-> "save_attendance", status |-> "success",
                           student_id |-> r.student_id, date |-> date_str,
                           record |-> attendance_record,
                           student_info |-> db3[r.student_id]]]

-----------------------------------------------------------------------------
(* The attendance specification: save_attendance calls on one session *)

\* The calendar of the model: the days date.today() takes, in order.
Days == <<"2025-01-01", "2025-01-02">>

DayNo(d) == CHOOSE i \in DOMAIN Days : Days[i] = d

\* Inputs of save_attendance.
RawNames ==
    { <<>>, <<" ">>, <<"a", "b">>, <<"A", "B">>, <<" ", "a", "B", " ">>, <<"b">> }

Grades == {NoneVal, "5"}

DateArgs == {NoneVal} \cup {Days[i] : i \in DOMAIN Days}

NoCall == [action |-> "none", status |-> "none"]

NoStore == <<>>

NoRequests == <<>>

InitAttendance ==
    /\ state = initialize_default_state
    /\ today = Days[1]
    /\ clock = 0
    /\ ret = NoCall
    /\ store = NoStore
    /\ nextId = 1
    /\ appended = <<>>
    /\ calls = 0
    /\ requests = NoRequests

\* One call of the tool save_attendance(student_name, grade, date_str).
save_attendance ==
    \E raw_name \in RawNames, grade \in Grades, date_str \in DateArgs :
        LET r == SaveAttendance(state, raw_name, grade, date_str, today, clock)
        IN  /\ state' = r.state
            /\ ret' = [r.ret EXCEPT !.action = "save_attendance"] @@
                      [raw_name |-> raw_name, grade_arg |-> grade,
                       date_arg |-> date_str]
            /\ UNCHANGED <<today, clock, store, nextId, appended, calls, requests>>

\* Midnight passes: date.today() moves to the next day of the calendar.
NextDay ==
    /\ DayNo(today) < Len(Days)
    /\ today' = Days[DayNo(today) + 1]
    /\ UNCHANGED <<state, clock, ret, store, nextId, appended, calls, requests>>

NextAttendance == save_attendance \/ NextDay

SpecAttendance == InitAttendance /\ [][NextAttendance]_vars

-----------------------------------------------------------------------------
(* Session resolution: get_or_create_session and the session store *)

\* The session store is an external service.  A call of it may raise (the
\* database fails).  get_session for an id that has no document answers
\* without a session (or raises); list_sessions is called with no ordering
\* argument and its result is not sorted, so any of the user's sessions may
\* come first.

MaxSessions == 3

Users == {"u1", "u2"}

SessionId(n) == "s" \o ToString(n)

SessionIdArgs == {NoneVal, "", "ghost"} \cup {SessionId(n) : n \in 1..MaxSessions}

\* The ids of the documents the store holds for a user.
StoredIds(st, user_id) == {st[user_id][i].id : i \in DOMAIN st[user_id]}

\* session_service.get_session: what a call can answer.
GetSessionOutcomes(st, user_id, session_id) ==
    IF session_id \in StoredIds(st, user_id) THEN {"session", "raise"}
    ELSE {"none", "raise"}

\* session_service.list_sessions: it raises or answers with the user's
\* sessions; `first' is the position, in creation order, of the session that
\* comes first in the answer, and `count' the number of sessions listed.
ListSessionsOutcomes(st, user_id) ==
    {[kind |-> "raise", count |-> 0, first |-> 0]} \cup
    (IF st[user_id] = <<>>
     THEN {[kind |-> "listed", count |-> 0, first |-> 0]}
     ELSE {[kind |-> "listed", count |-> Len(st[user_id]), first |-> i] :
              i \in DOMAIN st[user_id]})

\* session_service.create_session: it raises or stores a new document.
CreateSessionOutcomes(next) ==
    IF next <= MaxSessions THEN {"created", "raise"} ELSE {"raise"}

CreateSession(st, user_id, next, doc) ==
    [st EXCEPT ![user_id] = Append(@, [id |-> SessionId(next), state |-> doc])]

\* Lines 59-71: the explicit id is returned unless the fetch raised; the
\* session fetched is not looked at.
OnFetch(outcome) == IF outcome = "raise" THEN "next" ELSE "return"

\* Faulty variant of OnList: the failure of the listing is not caught.
OnListPropagates(outcome) ==
    IF outcome.kind = "raise" THEN "raise"
    ELSE IF outcome.count > 0 THEN "return" ELSE "next"

\* Lines 74-87: the first session listed is returned when there is one; a
\* failure of the listing is caught.
OnList(outcome) ==
    IF outcome.kind = "raise" THEN "next"
    ELSE IF outcome.count > 0 THEN "return" ELSE "next"

\* Lines 90-101: only a failure to create raises.
OnCreate(outcome) == IF outcome = "raise" THEN "raise" ELSE "return"

\* get_or_create_session(user_id, session_id) under the outcomes of the
\* store calls it makes: the store afterwards and the value returned.
GetOrCreateSession(st, next, user_id, session_id, fetch, list, create) ==
    LET fetched == IF Truthy(session_id) THEN OnFetch(fetch) ELSE "next"
        listed == IF fetched = "next" THEN OnList(list) ELSE "skipped"
        made == IF listed = "next" THEN OnCreate(create) ELSE "skipped"
        base == [user_id |-> user_id, session_id_arg |-> session_id,
                 fetch |-> IF Truthy(session_id) THEN fetch ELSE "skipped",
                 list |-> IF fetched = "next"
                          THEN list.kind
                          ELSE "skipped",
                 create |-> IF listed = "next" THEN create ELSE "skipped"]
    IN  IF fetched = "return"
        THEN [store |-> st, next |-> next,
              ret |-> base @@ [raised |-> FALSE, result |-> session_id]]
        ELSE IF fetched = "raise" \/ listed = "raise" \/ made = "raise"
        THEN [store |-> st, next |-> next,
              ret |-> base @@ [raised |-> TRUE, result |-> NoneVal]]
        ELSE IF listed = "return"
        THEN [store |-> st, next |-> next,
              ret |-> base @@ [raised |-> FALSE, result |-> st[user_id][list.first].id]]
        ELSE [store |-> CreateSession(st, user_id, next, initialize_default_state),
              next |-> next + 1,
              ret |-> base @@ [raised |-> FALSE, result |-> SessionId(next)]]

InitSession ==
    /\ state = initialize_default_state
    /\ today = "2025-01-01"
    /\ clock = 0
    /\ ret = NoCall
    /\ store = [u \in Users |-> <<>>]
    /\ nextId = 1
    /\ appended = <<>>
    /\ calls = 0
    /\ requests = NoRequests

\* One call of get_or_create_session.
get_or_create_session ==
    \E user_id \in Users, session_id \in SessionIdArgs :
    \E fetch \in GetSessionOutcomes(store, user_id, session_id),
       list \in ListSessionsOutcomes(store, user_id),
       create \in CreateSessionOutcomes(nextId) :
        LET r == GetOrCreateSession(store, nextId, user_id, session_id,
                                    fetch, list, create)
        IN  /\ store' = r.store
            /\ nextId' = r.next
            /\ ret' = r.ret @@ [action |-> "get_or_create_session",
                                had |-> Len(store[user_id])]
            /\ UNCHANGED <<state, today, clock, appended, calls, requests>>

\* POST /api/sessions/{user_id}?force_new=true: a new session is created
\* whatever the user has; a failure is answered with an error value.
\* (Without force_new the endpoint calls get_or_create_session(user_id).)
create_user_session ==
    \E user_id \in Users, create \in CreateSessionOutcomes(nextId) :
        /\ store' = IF create = "created"
                    THEN CreateSession(store, user_id, nextId, initialize_default_state)
                    ELSE store
        /\ nextId' = IF create = "created" THEN nextId + 1 ELSE nextId
        /\ ret' = [action |-> "create_user_session", user_id |-> user_id,
                   force_new |-> TRUE,
                   result |-> IF create = "created" THEN SessionId(nextId) ELSE NoneVal,
                   error |-> create = "raise"]
        /\ UNCHANGED <<state, today, clock, appended, calls, requests>>

NextSession == get_or_create_session \/ create_user_session

SpecSession == InitSession /\ [][NextSession]_vars

-----------------------------------------------------------------------------
(* The manager tools that write interaction_history *)

\* The cap of interaction_history.
HISTORY_LIMIT == 100

\* str(details)[:500]
DETAILS_LIMIT == 500

Details500(details) ==
    IF Len(details) <= DETAILS_LIMIT THEN details
    ELSE SubSeq(details, 1, DETAILS_LIMIT)

\* The entry log_interaction builds (lines 238-244).
InteractionEntry(s, interaction_type, details, tick) ==
    [timestamp |-> NowIso(tick),
     type |-> interaction_type,
     details |-> Details500(details),
     session_count |-> Get(s, "session_count", 0),
     user_role |-> Get(s, "user_role", "unknown")]

\* Faulty variant of KeepLast: the first HISTORY_LIMIT entries are kept.
KeepFirst(history) ==
    IF Len(history) > HISTORY_LIMIT THEN SubSeq(history, 1, HISTORY_LIMIT)
    ELSE history

\* Lines 250-252: interaction_history[-100:] when the list is longer than 100.
KeepLast(history) ==
    IF Len(history) > HISTORY_LIMIT
    THEN SubSeq(history, Len(history) - HISTORY_LIMIT + 1, Len(history))
    ELSE history

\* log_interaction(tool_context, interaction_type, details): the document
\* afterwards.
LogInteraction(s, interaction_type, details, tick) ==
    LET entry == InteractionEntry(s, interaction_type, details, tick)
        interaction_history ==
            Append(Get(s, "interaction_history", <<>>), entry)
    IN  SetItem(s, "interaction_history", KeepLast(interaction_history))

\* str.lower() of a role or data_type argument, character by character.
RECURSIVE LowerWord(_)
LowerWord(w) ==
    IF w = "" THEN ""
    ELSE LowerChar(SubSeq(w, 1, 1)) \o LowerWord(SubSeq(w, 2, Len(w)))

\* update_user_info(name, role): lines 83-113.
UpdateUserInfo(s, name, role, tick) ==
    LET s1 == SetItem(SetItem(s, "user_name", name), "user_role", LowerWord(role))
        session_count == Get(s1, "session_count", 0) + 1
        s2 == SetItem(s1, "session_count", session_count)
    IN  [state |-> LogInteraction(s2, "user_info_update",
                                  "Updated to " \o name \o " (" \o role \o ")", tick),
         ret |-> [action |-> "update_user_info", name |-> name, role |-> role,
                  old_name |-> Get(s, "user_name", ""),
                  old_role |-> Get(s, "user_role", ""),
                  session_count |-> session_count]]

\* str(preferences) of the preferences arguments of the model.
PreferencesRepr(preferences) ==
    IF "difficulty_level" \in DOMAIN preferences
    THEN "{'difficulty_level': '" \o preferences.difficulty_level \o "'}"
    ELSE "{'language': '" \o preferences.language \o "'}"

\* set_user_preferences(preferences): lines 141-159; dict.update keeps the
\* keys that preferences does not name.
SetUserPreferences(s, preferences, tick) ==
    LET old_prefs == Get(s, "preferences", EmptyDict)
        current_prefs == preferences @@ old_prefs
        s1 == SetItem(s, "preferences", current_prefs)
    IN  [state |-> LogInteraction(s1, "preferences_update",
                                  "Updated preferences: " \o PreferencesRepr(preferences),
                                  tick),
         ret |-> [action |-> "set_user_preferences", old_preferences |-> old_prefs,
                  new_preferences |-> current_prefs]]

\* Faulty variant of ClearsKind: data_type is compared without lower().
ClearsKindCaseSensitive(data_type, kind) == data_type \in {kind, "all"}

\* data_type.lower() in [kind, 'all']
ClearsKind(data_type, kind) == LowerWord(data_type) \in {kind, "all"}

\* Faulty variant of ResetAll: the skeleton is set back as a new session
\* has it, the session count at 0.
ResetAllToDefault(s) ==
    [user_name |-> Get(s, "user_name", ""),
     user_role |-> Get(s, "user_role", ""),
     session_count |-> 0,
     preferences |-> DefaultPreferences,
     interaction_history |-> <<>>,
     attendance_records |-> EmptyDict]

\* Lines 319-355: 'all' removes every key and sets the skeleton back with
\* the user's name, role and session count.
ResetAll(s) ==
    [user_name |-> Get(s, "user_name", ""),
     user_role |-> Get(s, "user_role", ""),
     session_count |-> Get(s, "session_count", 0),
     preferences |-> DefaultPreferences,
     interaction_history |-> <<>>,
     attendance_records |-> EmptyDict]

\* clear_user_data(data_type): lines 286-371.
ClearUserData(s, data_type, tick) ==
    LET s1 == IF ClearsKind(data_type, "interactions")
              THEN SetItem(s, "interaction_history", <<>>) ELSE s
        s2 == IF ClearsKind(data_type, "attendance")
              THEN SetItem(s1, "attendance_records", EmptyDict) ELSE s1
        s3 == IF ClearsKind(data_type, "preferences")
              THEN SetItem(s2, "preferences", DefaultPreferences) ELSE s2
        s4 == IF LowerWord(data_type) = "all" THEN ResetAll(s3) ELSE s3
    IN  [state |-> LogInteraction(s4, "data_cleanup",
                                  "Cleared " \o data_type \o " data", tick),
         ret |-> [action |-> "clear_user_data", data_type |-> data_type]]

-----------------------------------------------------------------------------
(* The history specification: manager tool calls on one session *)

\* The number of tool calls a behaviour makes.
MaxCalls == 3

\* A session starts with the default skeleton.  The specification also
\* starts from the sessions that n log_interaction calls, made at the times
\* 1..n, leave of it (n at most HISTORY_LIMIT, so nothing was dropped yet),
\* so that the cap is within MaxCalls calls.
PrefillLengths == {0, HISTORY_LIMIT - 1, HISTORY_LIMIT}

Prefilled(n) ==
    SetItem(initialize_default_state, "interaction_history",
            [i \in 1..n |->
                InteractionEntry(initialize_default_state, "query", "question", i)])

RoleArgs == {"Teacher", "student"}

PreferenceArgs == {[difficulty_level |-> "hard"], [language |-> "hindi"]}

DataTypeArgs ==
    {"interactions", "Interactions", "attendance", "preferences", "all", "ALL", "none"}

History == Get(state, "interaction_history", <<>>)

InitHistory ==
    /\ \E n \in PrefillLengths :
          /\ state = Prefilled(n)
          /\ clock = n
    /\ appended = History
    /\ today = "2025-01-01"
    /\ ret = NoCall
    /\ store = NoStore
    /\ nextId = 1
    /\ calls = 0
    /\ requests = NoRequests

\* What every tool call of this specification does besides its own effect:
\* time passes, the call is counted, and the entry it logged, the last of
\* the list, is noted in `appended'.
Called ==
    /\ calls < MaxCalls
    /\ calls' = calls + 1
    /\ clock' = clock + 1
    /\ appended' = Append(appended, History'[Len(History')])
    /\ UNCHANGED <<today, store, nextId, requests>>

update_user_info ==
    \E role \in RoleArgs :
        LET r == UpdateUserInfo(state, "Asha", role, clock + 1)
        IN  state' = r.state /\ ret' = r.ret /\ Called

set_user_preferences ==
    \E preferences \in PreferenceArgs :
        LET r == SetUserPreferences(state, preferences, clock + 1)
        IN  state' = r.state /\ ret' = r.ret /\ Called

log_interaction ==
    /\ state' = LogInteraction(state, "query", "question", clock + 1)
    /\ ret' = [action |-> "log_interaction", type |-> "query",
               total_interactions |-> Len(History')]
    /\ Called

clear_user_data ==
    \E data_type \in DataTypeArgs :
        LET r == ClearUserData(state, data_type, clock + 1)
        IN  state' = r.state /\ ret' = r.ret /\ Called

NextHistory ==
    update_user_info \/ set_user_preferences \/ log_interaction \/ clear_user_data

SpecHistory == InitHistory /\ [][NextHistory]_vars

-----------------------------------------------------------------------------
(* The student evaluation agent                                            *)
(* (manager/sub_agents/student_evaluation_agent/agent.py)                  *)

\* ''.join(chars): the Python str of a name kept as a sequence of characters.
RECURSIVE Str(_)
Str(chars) == IF chars = <<>> THEN "" ELSE Head(chars) \o Str(Tail(chars))

\* str.replace(' ', '_')
Underscored(chars) == [i \in DOMAIN chars |-> IF chars[i] = " " THEN "_" ELSE chars[i]]

\* str.strip() of an answer, a Python str kept as a string.
RECURSIVE StrLStrip(_)
StrLStrip(w) ==
    IF w # "" /\ SubSeq(w, 1, 1) = " " THEN StrLStrip(SubSeq(w, 2, Len(w))) ELSE w

RECURSIVE StrRStrip(_)
StrRStrip(w) ==
    IF w # "" /\ SubSeq(w, Len(w), Len(w)) = " "
    THEN StrRStrip(SubSeq(w, 1, Len(w) - 1)) ELSE w

StrStrip(w) == StrRStrip(StrLStrip(w))

\* sub in w
Contains(w, sub) ==
    \E i \in 1..(Len(w) - Len(sub) + 1) : SubSeq(w, i, i + Len(sub) - 1) = sub

\* datetime.now().strftime('%Y%m%d_%H%M%S'): the clock read to the second.
\* The model's clock counts the seconds of one minute.
Stamp(tick) == "20250101_09000" \o ToString(tick)

\* Line 58: f"eval_{now:%Y%m%d_%H%M%S}_{student_name.replace(' ', '_')}"
EvalSessionId(tick, student_name) ==
    "eval_" \o Stamp(tick) \o "_" \o Str(Underscored(student_name))

Question(category, question, type, importance) ==
    [category |-> category, question |-> question, type |-> type,
     importance |-> importance]

\* Lines 61-152: the fixed list of questions.
EvaluationQuestions(student_name) ==
    << Question("basic_info",
                "Hi " \o Str(student_name)
                    \o "! Let's start with some basic information. How old are you?",
                "age", "high"),
       Question("academic", "What grade/class are you currently in?",
                "grade_level", "high"),
       Question("academic", "Which school do you attend?", "school_info", "medium"),
       Question("interests", "What is your favorite subject in school and why?",
                "favorite_subject", "high"),
       Question("interests", "Which subject do you find most difficult or challenging?",
                "difficult_subject", "high"),
       Question("learning_style",
                "How do you prefer to learn new things? (reading, watching videos, hands-on activities, listening to explanations)",
                "learning_preference", "high"),
       Question("hobbies",
                "What do you like to do in your free time? What are your hobbies?",
                "hobbies", "medium"),
       Question("social", "Do you prefer working alone or with other students? Why?",
                "social_preference", "medium"),
       Question("motivation", "What motivates you to study? What are your goals?",
                "motivation", "high"),
       Question("challenges",
                "What do you find most challenging about school or learning?",
                "learning_challenges", "high"),
       Question("emotional",
                "How do you feel when you don't understand something in class?",
                "emotional_response", "high"),
       Question("activities",
                "What activities have you done recently that you enjoyed?",
                "recent_activities", "medium"),
       Question("family", "Does anyone at home help you with your studies? How?",
                "family_support", "medium"),
       Question("technology",
                "Are you comfortable using computers, tablets, or educational apps?",
                "tech_comfort", "medium"),
       Question("future",
                "What do you want to be when you grow up? Any dream career?",
                "career_aspirations", "medium") >>

\* start_student_evaluation(student_name): lines 46-180.
StartStudentEvaluation(s, raw_name, tick) ==
    LET student_name == Title(Strip(raw_name))
        evaluation_sessions == Get(s, "evaluation_sessions", EmptyDict)
        session_id == EvalSessionId(tick, student_name)
        evaluation_questions == EvaluationQuestions(student_name)
        evaluation_session ==
            [session_id |-> session_id,
             student_name |-> Str(student_name),
             start_time |-> NowIso(tick),
             questions |-> evaluation_questions,
             current_question_index |-> 0,
             answers |-> EmptyDict,
             status |-> "in_progress",
             evaluator |-> Get(s, "user_name", "system")]
    IN  [state |-> SetItem(s, "evaluation_sessions",
                           SetItem(evaluation_sessions, session_id, evaluation_session)),
         ret |-> [action |-> "start_student_evaluation", status |-> "started",
                  session_id |-> session_id, student_name |-> Str(student_name),
                  total_questions |-> Len(evaluation_questions),
                  first_question |-> evaluation_questions[1]]]

\* answers.get(type, {}).get("answer", "")
AnswerOf(answers, type) == Get(Get(answers, type, EmptyDict), "answer", "")

\* Faulty variant of EmotionalStability: the request for help is looked for
\* first.
EmotionalStabilityHelpFirst(emotional_response) ==
    IF Contains(emotional_response, "ask") \/ Contains(emotional_response, "help")
    THEN "help_seeking"
    ELSE IF Contains(emotional_response, "frustrated") \/ Contains(emotional_response, "angry")
    THEN "needs_support"
    ELSE IF Contains(emotional_response, "sad") \/ Contains(emotional_response, "give up")
    THEN "low_confidence"
    ELSE "stable"

\* Lines 373-380: the emotional pattern, by the first keyword test that passes.
EmotionalStability(emotional_response) ==
    IF Contains(emotional_response, "frustrated") \/ Contains(emotional_response, "angry")
    THEN "needs_support"
    ELSE IF Contains(emotional_response, "sad") \/ Contains(emotional_response, "give up")
    THEN "low_confidence"
    ELSE IF Contains(emotional_response, "ask") \/ Contains(emotional_response, "help")
    THEN "help_seeking"
    ELSE "stable"

\* Lines 353-361: the learning style, by the first keyword test that passes.
LearningStyle(learning_pref) ==
    IF Contains(learning_pref, "hands-on") \/ Contains(learning_pref, "activities")
    THEN "kinesthetic"
    ELSE IF Contains(learning_pref, "listening") \/ Contains(learning_pref, "explanation")
    THEN "auditory"
    ELSE IF Contains(learning_pref, "reading") \/ Contains(learning_pref, "text")
    THEN "reading/writing"
    ELSE "visual"

\* [x] if test else []
ListIf(test, x) == IF test THEN <<x>> ELSE <<>>

\* str.replace('_', ' ')
RECURSIVE Spaced(_)
Spaced(w) ==
    IF w = "" THEN ""
    ELSE (IF SubSeq(w, 1, 1) = "_" THEN " " ELSE SubSeq(w, 1, 1))
         \o Spaced(SubSeq(w, 2, Len(w)))

\* " ".join(parts)
RECURSIVE JoinSpace(_)
JoinSpace(parts) ==
    IF parts = <<>> THEN ""
    ELSE IF Len(parts) = 1 THEN parts[1]
    ELSE parts[1] \o " " \o JoinSpace(Tail(parts))

\* Lines 319-458: the analysis computed from the answers of a session.
Analysis(session, session_id, tick) ==
    LET answers == session.answers
        student_name == session.student_name
        favorite_subject == LowerWord(AnswerOf(answers, "favorite_subject"))
        difficult_subject == LowerWord(AnswerOf(answers, "difficult_subject"))
        grade_level == AnswerOf(answers, "grade_level")
        learning_pref == LowerWord(AnswerOf(answers, "learning_preference"))
        social_pref == LowerWord(AnswerOf(answers, "social_preference"))
        tech_comfort == LowerWord(AnswerOf(answers, "tech_comfort"))
        emotional_response == LowerWord(AnswerOf(answers, "emotional_response"))
        motivation == LowerWord(AnswerOf(answers, "motivation"))
        learning_style == LearningStyle(learning_pref)
        social_learning ==
            IF Contains(social_pref, "group") \/ Contains(social_pref, "others")
            THEN "collaborative" ELSE "independent"
        technology_comfort ==
            IF Contains(tech_comfort, "yes") \/ Contains(tech_comfort, "comfortable")
            THEN "high" ELSE "medium"
        emotional_stability == EmotionalStability(emotional_response)
        motivation_level ==
            IF Contains(motivation, "goal") \/ Contains(motivation, "future")
            THEN "high" ELSE "medium"
        strengths ==
            ListIf(favorite_subject # "" /\ favorite_subject # "none",
                   "Strong interest in " \o favorite_subject)
            \o ListIf(social_learning = "collaborative", "Works well with others")
            \o ListIf(motivation_level = "high", "Highly motivated learner")
            \o ListIf(emotional_stability = "help_seeking", "Comfortable asking for help")
        weaknesses ==
            ListIf(difficult_subject # "" /\ difficult_subject # "none",
                   "Needs support in " \o difficult_subject)
            \o ListIf(emotional_stability = "needs_support",
                      "May need emotional support when facing challenges")
            \o ListIf(technology_comfort = "medium",
                      "Could benefit from technology skills development")
        recommendations ==
            ListIf(learning_style = "kinesthetic",
                   "Use hands-on activities, experiments, and interactive learning")
            \o ListIf(learning_style = "visual",
                      "Incorporate visual aids, diagrams, and video content")
            \o ListIf(learning_style = "auditory",
                      "Use discussions, explanations, and audio materials")
            \o ListIf(difficult_subject # "",
                      "Provide extra support and practice in " \o difficult_subject)
            \o ListIf(difficult_subject # "",
                      "Break down " \o difficult_subject
                          \o " concepts into smaller, manageable parts")
            \o ListIf(emotional_stability = "needs_support",
                      "Create a supportive learning environment with positive reinforcement")
            \o ListIf(emotional_stability = "needs_support",
                      "Teach coping strategies for handling difficult concepts")
            \o ListIf(social_learning = "collaborative",
                      "Include group projects and peer learning opportunities")
            \o ListIf(social_learning # "collaborative",
                      "Provide individual learning paths and self-paced activities")
        summary_parts ==
            << student_name \o " is a " \o grade_level \o " student with a "
                   \o learning_style \o " learning style." >>
            \o ListIf(favorite_subject # "",
                      "They show strong interest in " \o favorite_subject \o ".")
            \o ListIf(difficult_subject # "" /\ difficult_subject # "none",
                      "They find " \o difficult_subject
                          \o " challenging and would benefit from additional support.")
            \o << "Their emotional response to challenges suggests they are "
                      \o Spaced(emotional_stability) \o "." >>
            \o ListIf(social_learning = "collaborative",
                      "They prefer collaborative learning environments.")
            \o ListIf(social_learning # "collaborative",
                      "They work well independently.")
    IN  [student_name |-> student_name,
         evaluation_date |-> NowIso(tick),
         session_id |-> session_id,
         academic_analysis |->
            [favorite_subject |-> favorite_subject,
             challenging_subject |-> difficult_subject,
             grade_level |-> grade_level,
             academic_confidence |->
                IF Contains(difficult_subject, "easy") \/ Contains(difficult_subject, "none")
                THEN "high" ELSE "medium"],
         learning_style_analysis |->
            [primary_style |-> learning_style,
             social_learning |-> social_learning,
             technology_comfort |-> technology_comfort],
         emotional_analysis |->
            [emotional_stability |-> emotional_stability,
             motivation_level |-> motivation_level,
             resilience |->
                IF Contains(emotional_response, "try again")
                       \/ Contains(emotional_response, "practice")
                THEN "high" ELSE "medium"],
         strengths |-> strengths,
         weaknesses |->
            IF weaknesses # <<>> THEN weaknesses
            ELSE <<"No significant weaknesses identified">>,
         recommendations |-> recommendations,
         learning_preferences |-> EmptyDict,
         behavioral_insights |-> EmptyDict,
         summary |-> JoinSpace(summary_parts)]

\* analyze_student_responses(session_id): lines 304-475.  The profile is
\* stored under the session's student name.
AnalyzeStudentResponses(s, session_id, tick) ==
    LET evaluation_sessions == Get(s, "evaluation_sessions", EmptyDict)
        student_profiles == Get(s, "student_profiles", EmptyDict)
    IN  IF session_id \notin DOMAIN evaluation_sessions
        THEN [state |-> s, ret |-> [error |-> "Session not found"]]
        ELSE LET session == evaluation_sessions[session_id]
                 analysis == Analysis(session, session_id, tick)
                 profile == [profile_created |-> NowIso(tick),
                             last_evaluation |-> session_id,
                             analysis |-> analysis,
                             raw_answers |-> session.answers]
             IN  [state |-> SetItem(s, "student_profiles",
                                    SetItem(student_profiles, session.student_name,
                                            profile)),
                  ret |-> analysis]

\* Faulty variant of ProgressTenths: the index before the advance is used.
ProgressTenthsBeforeAdvance(index, total) == (2000 * (index - 1) + total) \div (2 * total)

\* Lines 269 and 275: round((index / total) * 100, 1), in tenths of a percent.
\* No index of 1..14 out of 15 is half-way between two tenths, so the
\* rounding is to the nearest tenth.
ProgressTenths(index, total) == (2000 * index + total) \div (2 * total)

\* Faulty variant of SeenByAnalysis: the analysis reads the document as it
\* was before the call.
SeenByAnalysisStale(before, changed) == before

\* Lines 220, 233-246 and 309: the session fetched from the state is changed
\* in place, so the document that analyze_student_responses reads is the
\* changed one.
SeenByAnalysis(before, changed) == changed

\* Line 241: session["current_question_index"] += 1
Advance(current_question_index) == current_question_index + 1

\* record_evaluation_answer(session_id, answer): lines 206-280.  The session
\* is changed in place, so the analysis of line 249 reads the session with
\* its last answer, its new index and its new status.
RecordEvaluationAnswer(s, session_id, answer, tick) ==
    LET evaluation_sessions == Get(s, "evaluation_sessions", EmptyDict)
        error(message) ==
            [state |-> s,
             ret |-> [action |-> "record_evaluation_answer", status |-> "error",
                      message |-> message]]
    IN  IF session_id \notin DOMAIN evaluation_sessions
        THEN error("Evaluation session not found")
        ELSE
        LET session == evaluation_sessions[session_id]
            current_index == session.current_question_index
            questions == session.questions
        IN  IF current_index >= Len(questions)
            THEN error("No more questions in this evaluation")
            ELSE
            LET current_question == questions[current_index + 1]
                answers == SetItem(session.answers, current_question.type,
                                   [question |-> current_question.question,
                                    answer |-> StrStrip(answer),
                                    category |-> current_question.category,
                                    timestamp |-> NowIso(tick)])
                index == Advance(current_index)
                answered == [session EXCEPT !.answers = answers,
                                            !.current_question_index = index]
                store_session(doc, sess) ==
                    SetItem(doc, "evaluation_sessions",
                            SetItem(Get(doc, "evaluation_sessions", EmptyDict),
                                    session_id, sess))
            IN  IF index >= Len(questions)
                THEN LET completed ==
                             SetItem([answered EXCEPT !.status = "completed"],
                                     "completion_time", NowIso(tick))
                         analysed == AnalyzeStudentResponses(
                                         SeenByAnalysis(s, store_session(s, completed)),
                                         session_id, tick)
                     IN  [state |-> store_session(analysed.state, completed),
                          ret |-> [action |-> "record_evaluation_answer",
                                   status |-> "completed",
                                   session_id |-> session_id,
                                   total_answers |-> Cardinality(DOMAIN completed.answers),
                                   analysis |-> analysed.ret]]
                ELSE [state |-> store_session(s, answered),
                      ret |-> [action |-> "record_evaluation_answer",
                               status |-> "continuing",
                               session_id |-> session_id,
                               progress_tenths |-> ProgressTenths(index, Len(questions)),
                               question_number |-> index + 1,
                               total_questions |-> Len(questions),
                               next_question |-> questions[index + 1]]]

-----------------------------------------------------------------------------
(* The evaluation specification: the evaluation tools on one session *)

\* The number of tool calls a behaviour makes, and the seconds of its clock.
MaxEvalCalls == 4

MaxSecond == 2

EvalNames == { <<"a", "b">>, <<" ", "A", "B">>, <<"b">> }

\* Answers; their capital letters are among those LowerChar knows.
AnswerArgs == { "reading", " I get angry but ask " }

\* n answers recorded in a session at the time tick.
\* (The test on `after` has TLC compute the document of one answer before it
\* goes on to the next.)
RECURSIVE Answered(_, _, _, _)
Answered(s, session_id, n, tick) ==
    IF n = 0 THEN s
    ELSE LET after == RecordEvaluationAnswer(s, session_id, "reading", tick).state
         IN  IF DOMAIN after = {}
             THEN after
             ELSE Answered(after, session_id, n - 1, tick)

\* A session document after start_student_evaluation for 'ab' at the time
\* tick and n answers at that time.
Evaluated(s, n, tick) ==
    Answered(StartStudentEvaluation(s, <<"a", "b">>, tick).state,
             EvalSessionId(tick, <<"A", "b">>), n, tick)

EvaluationSessions == Get(state, "evaluation_sessions", EmptyDict)

StudentProfiles == Get(state, "student_profiles", EmptyDict)

\* The session ids passed to the tools: the existing ones and a missing one.
EvalSessionIdArgs == DOMAIN EvaluationSessions \cup {"eval_ghost"}

\* A behaviour starts with the default skeleton, or one answer before the
\* end of a first evaluation of 'ab', or one answer before the end of a
\* second evaluation of 'ab' started a second after the complete first one.
InitEvaluation ==
    /\ \/ state = initialize_default_state /\ clock = 1
       \/ state = Evaluated(initialize_default_state, 14, 1) /\ clock = 1
       \/ LET first == Evaluated(initialize_default_state, 15, 1)
          IN  /\ DOMAIN first # {}
              /\ state = Evaluated(first, 14, 2)
              /\ clock = 2
    /\ today = "2025-01-01"
    /\ ret = NoCall
    /\ store = NoStore
    /\ nextId = 1
    /\ appended = <<>>
    /\ calls = 0
    /\ requests = NoRequests

EvalCalled ==
    /\ calls < MaxEvalCalls
    /\ calls' = calls + 1
    /\ UNCHANGED <<today, clock, store, nextId, appended, requests>>

start_student_evaluation ==
    \E raw_name \in EvalNames :
        LET r == StartStudentEvaluation(state, raw_name, clock)
        IN  state' = r.state /\ ret' = r.ret /\ EvalCalled

record_evaluation_answer ==
    \E session_id \in EvalSessionIdArgs, answer \in AnswerArgs :
        LET r == RecordEvaluationAnswer(state, session_id, answer, clock)
        IN  /\ state' = r.state
            /\ ret' = r.ret @@ [session_id_arg |-> session_id, answer_arg |-> answer]
            /\ EvalCalled

analyze_student_responses ==
    \E session_id \in EvalSessionIdArgs :
        LET r == AnalyzeStudentResponses(state, session_id, clock)
        IN  /\ state' = r.state
            /\ ret' = [action |-> "analyze_student_responses",
                       session_id_arg |-> session_id, result |-> r.ret]
            /\ EvalCalled

\* A second passes.
NextSecond ==
    /\ clock < MaxSecond
    /\ clock' = clock + 1
    /\ UNCHANGED <<state, today, ret, store, nextId, appended, calls, requests>>

NextEvaluation ==
    \/ start_student_evaluation
    \/ record_evaluation_answer
    \/ analyze_student_responses
    \/ NextSecond

SpecEvaluation == InitEvaluation /\ [][NextEvaluation]_vars

-----------------------------------------------------------------------------
(* The progress analyzer                                                   *)
(* (manager/sub_agents/progress_analyzer_agent/agent.py)                   *)

\* Numbers that Python keeps as floats rounded to two decimals are kept
\* here as integers counting hundredths: 66.67 is 6667.

\* round(part / whole * 100, 2), in hundredths; 0 when whole is 0.  For the
\* small counts of the model no quotient is half-way between two hundredths.
PercentageHundredths(part, whole) ==
    IF whole > 0 THEN (20000 * part + whole) \div (2 * whole) ELSE 0

\* datetime.fromisoformat(text).date(), as the number of the day in Days.
DateOf(text) == DayNo(text)

\* str(date) of a day number; days before the calendar of the model have no
\* name in Days and are written by their number.
DateText(n) == IF n \in DOMAIN Days THEN Days[n] ELSE "day " \o ToString(n)

\* start_date <= record_date <= end_date
InWindow(start_date, record_date, end_date) ==
    start_date <= record_date /\ record_date <= end_date

\* The records of a student inside the window: the keys of the dict that
\* the filter loop keeps.
WindowRecords(student_id, attendance_records, start_date, end_date) ==
    {k \in DOMAIN attendance_records :
        /\ Get(attendance_records[k], "student_id", NoneVal) = student_id
        /\ InWindow(start_date, DateOf(attendance_records[k].date), end_date)}

WithStatus(attendance_records, keys, status) ==
    Cardinality({k \in keys : Get(attendance_records[k], "status", NoneVal) = status})

\* analyze_attendance_pattern: lines 176-215.
AnalyzeAttendancePattern(student_id, attendance_records, start_date, end_date) ==
    LET student_attendance ==
            WindowRecords(student_id, attendance_records, start_date, end_date)
        total_days == Cardinality(student_attendance)
        present_days == WithStatus(attendance_records, student_attendance, "present")
        absent_days == WithStatus(attendance_records, student_attendance, "absent")
        late_days == WithStatus(attendance_records, student_attendance, "late")
        attendance_percentage == PercentageHundredths(present_days, total_days)
    IN  [total_days |-> total_days,
         present_days |-> present_days,
         absent_days |-> absent_days,
         late_days |-> late_days,
         attendance_percentage |-> attendance_percentage,
         patterns |->
            << IF attendance_percentage >= 9500 THEN "Excellent attendance"
               ELSE IF attendance_percentage >= 8500 THEN "Good attendance"
               ELSE IF attendance_percentage >= 7500
               THEN "Moderate attendance - needs improvement"
               ELSE "Poor attendance - requires intervention" >>
            \o ListIf(10 * late_days > total_days, "Frequent tardiness"),
         trend |-> IF present_days > absent_days THEN "improving"
                   ELSE "needs_attention"]

\* analyze_mcq_performance, lines 228-237: what it returns when no stored
\* result is of the student.  No tool writes mcq_results, so this is what
\* it returns for every document of the model.
NoMcqData ==
    [total_tests |-> 0, average_score |-> 0, highest_score |-> 0,
     lowest_score |-> 0, improvement_trend |-> "no_data",
     subject_performance |-> EmptyDict,
     patterns |-> <<"No MCQ tests taken in this period">>]

\* analyze_game_engagement, lines 306-314: likewise for game_activities.
NoGameData ==
    [total_games |-> 0, total_time_minutes |-> 0, average_session_time |-> 0,
     game_types |-> EmptyDict, engagement_level |-> "no_data",
     patterns |-> <<"No educational games played in this period">>]

\* analyze_learning_path_progress, lines 368-374: likewise for learning_paths.
NoLearningPaths ==
    [active_paths |-> 0, completion_rate |-> 0, subjects_covered |-> <<>>,
     patterns |-> <<"No personalized learning paths assigned">>]

\* analyze_behavioral_patterns: lines 396-437.
AnalyzeBehavioralPatterns(attendance_data, mcq_data, games_data) ==
    LET attendance_rate == attendance_data.attendance_percentage
        games_engagement == games_data.engagement_level
        mcq_performance == mcq_data.improvement_trend
    IN  [consistency |->
            IF attendance_rate >= 9000 THEN "highly_consistent"
            ELSE IF attendance_rate >= 7500 THEN "moderately_consistent"
            ELSE "inconsistent",
         engagement_preference |->
            IF games_engagement = "high" /\ mcq_performance = "improving"
            THEN "multi_modal_learner"
            ELSE IF games_engagement = "high" THEN "interactive_learner"
            ELSE IF mcq_performance = "improving" THEN "traditional_assessments"
            ELSE "unknown",
         learning_momentum |->
            IF mcq_performance = "improving" /\ attendance_rate > 8500
            THEN "accelerating"
            ELSE IF mcq_performance = "stable" /\ attendance_rate > 7500
            THEN "steady"
            ELSE "needs_support",
         challenge_response |-> "unknown",
         social_interaction |-> "unknown"]

\* engagement_mapping.get(level, 50): line 452.
EngagementScore(engagement_level) ==
    CASE engagement_level = "high" -> 85
      [] engagement_level = "moderate" -> 70
      [] engagement_level = "low" -> 40
      [] engagement_level = "no_data" -> 50
      [] OTHER -> 50

\* Faulty variant of WeightedSum: the engagement weighs as much as the others.
WeightedSumEqualWeights(attendance_score, mcq_score, engagement_score) ==
    4 * attendance_score + 4 * mcq_score + 4 * 100 * engagement_score

\* Lines 444-456: attendance * 0.4 + mcq * 0.4 + engagement * 0.2, the two
\* scores in hundredths and the sum in thousandths.
WeightedSum(attendance_score, mcq_score, engagement_score) ==
    4 * attendance_score + 4 * mcq_score + 2 * 100 * engagement_score

\* round(x, 2) of a number of thousandths, in hundredths.  The weighted sum
\* is an even number of thousandths, so it is never half-way.
RoundToHundredths(thousandths) == (thousandths + 5) \div 10

\* calculate_overall_progress_score: lines 440-458, in hundredths.
CalculateOverallProgressScore(attendance_data, mcq_data, games_data) ==
    RoundToHundredths(
        WeightedSum(Get(attendance_data, "attendance_percentage", 0),
                    Get(mcq_data, "average_score", 0),
                    EngagementScore(Get(games_data, "engagement_level", "no_data"))))

\* generate_progress_recommendations: lines 461-496.
GenerateProgressRecommendations(progress_analysis) ==
    LET attendance_rate == progress_analysis.attendance_analysis.attendance_percentage
        mcq_avg == progress_analysis.academic_performance.mcq_performance.average_score
        engagement == progress_analysis.engagement_metrics.games.engagement_level
        active_paths == progress_analysis.learning_path_progress.active_paths
        consistency == progress_analysis.behavioral_insights.consistency
        recommendations ==
            ListIf(attendance_rate < 8500,
                   "Priority: Improve attendance consistency - consider parent meeting")
            \o ListIf(attendance_rate < 8500,
                      "Investigate barriers to regular attendance")
            \o ListIf(mcq_avg < 7000,
                      "Provide additional academic support and tutoring")
            \o ListIf(mcq_avg < 7000, "Consider modified assessment methods")
            \o ListIf(mcq_avg > 8500, "Consider advanced or enrichment activities")
            \o ListIf(engagement = "low",
                      "Increase interactive and gamified learning opportunities")
            \o ListIf(engagement = "low",
                      "Explore student interests to boost engagement")
            \o ListIf(active_paths = 0,
                      "Create personalized learning path based on student profile")
            \o ListIf(consistency = "inconsistent",
                      "Implement daily check-ins and routine building")
            \o ListIf(consistency = "inconsistent",
                      "Collaborate with parents on home-school consistency")
    IN  IF recommendations # <<>> THEN recommendations
        ELSE <<"Continue current approach - student is performing well">>

\* The text of a number of hundredths.
HundredthsText(h) ==
    ToString(h \div 100) \o "."
        \o (IF h % 10 = 0 THEN ToString((h % 100) \div 10)
            ELSE ToString((h % 100) \div 10) \o ToString(h % 10))

\* generate_progress_summary: lines 499-544.
GenerateProgressSummary(progress_analysis) ==
    LET overall_score == progress_analysis.overall_score
        attendance_rate == progress_analysis.attendance_analysis.attendance_percentage
        mcq_avg == progress_analysis.academic_performance.mcq_performance.average_score
        momentum == progress_analysis.behavioral_insights.learning_momentum
        performance_level ==
            IF overall_score >= 8500 THEN "excellent"
            ELSE IF overall_score >= 7500 THEN "good"
            ELSE IF overall_score >= 6500 THEN "satisfactory"
            ELSE "needs improvement"
    IN  JoinSpace(
          << Str(progress_analysis.student_name) \o " demonstrates "
                 \o performance_level \o " overall progress with a score of "
                 \o HundredthsText(overall_score) \o "/100.",
             IF attendance_rate >= 9000
             THEN "Attendance is excellent at " \o HundredthsText(attendance_rate) \o "%."
             ELSE IF attendance_rate >= 7500
             THEN "Attendance is acceptable at " \o HundredthsText(attendance_rate)
                      \o "% but could improve."
             ELSE "Attendance at " \o HundredthsText(attendance_rate)
                      \o "% requires immediate attention.",
             IF mcq_avg >= 8000
             THEN "Academic performance is strong with an average MCQ score of "
                      \o HundredthsText(mcq_avg) \o "%."
             ELSE IF mcq_avg >= 7000
             THEN "Academic performance is satisfactory with room for growth (MCQ average: "
                      \o HundredthsText(mcq_avg) \o "%)."
             ELSE "Academic performance needs support (MCQ average: "
                      \o HundredthsText(mcq_avg) \o "%).",
             IF momentum = "accelerating"
             THEN "The student shows positive learning momentum and increased engagement."
             ELSE IF momentum = "steady"
             THEN "The student maintains steady progress with consistent effort."
             ELSE "The student would benefit from additional motivation and support strategies." >>)

\* Line 146: f"progress_{now:%Y%m%d_%H%M%S}_{student_name.replace(' ', '_')}"
AnalysisId(tick, student_name) ==
    "progress_" \o Stamp(tick) \o "_" \o Str(Underscored(student_name))

\* datetime.now().isoformat() has microseconds: within one second it still
\* differs from call to call.
NowMicro(tick, call) == NowIso(tick) \o "." \o ToString(call)

\* analyze_student_progress(student_name, time_period_days): lines 48-174.
\* The name is compared in lower case, neither stripped nor title-cased.
AnalyzeStudentProgress(s, student_name, time_period_days, day, tick, call) ==
    LET students_db == Get(s, "students_database", EmptyDict)
        attendance_records == Get(s, "attendance_records", EmptyDict)
        student_id == FindStudent(students_db, student_name)
    IN  IF student_id = NoneVal
        THEN [state |-> s,
              ret |-> [action |-> "analyze_student_progress", status |-> "not_found"]]
        ELSE
        LET end_date == DayNo(day)
            start_date == end_date - time_period_days
            attendance_data ==
                AnalyzeAttendancePattern(student_id, attendance_records,
                                         start_date, end_date)
            mcq_data == NoMcqData
            games_data == NoGameData
            learning_progress == NoLearningPaths
            measured ==
                [student_name |-> student_name,
                 student_id |-> student_id,
                 analysis_period |-> DateText(start_date) \o " to " \o DateText(end_date),
                 analysis_date |-> NowMicro(tick, call),
                 time_period_days |-> time_period_days,
                 attendance_analysis |-> attendance_data,
                 academic_performance |-> [mcq_performance |-> mcq_data],
                 engagement_metrics |-> [games |-> games_data],
                 learning_path_progress |-> learning_progress,
                 behavioral_insights |->
                    AnalyzeBehavioralPatterns(attendance_data, mcq_data, games_data),
                 overall_score |->
                    CalculateOverallProgressScore(attendance_data, mcq_data, games_data)]
            recommended ==
                SetItem(measured, "recommendations",
                        GenerateProgressRecommendations(measured))
            progress_analysis ==
                SetItem(recommended, "summary", GenerateProgressSummary(recommended))
            progress_analyses == Get(s, "progress_analyses", EmptyDict)
            analysis_id == AnalysisId(tick, student_name)
        IN  [state |-> SetItem(s, "progress_analyses",
                               SetItem(progress_analyses, analysis_id,
                                       progress_analysis)),
             ret |-> [action |-> "analyze_student_progress", status |-> "success",
                      analysis_id |-> analysis_id,
                      progress_analysis |-> progress_analysis,
                      key_metrics |->
                         [overall_score |-> progress_analysis.overall_score,
                          attendance_rate |-> attendance_data.attendance_percentage,
                          mcq_average |-> mcq_data.average_score,
                          games_played |-> games_data.total_games]]]

-----------------------------------------------------------------------------
(* The progress specification: analyses of one session's roster *)

MaxProgressCalls == 3

ProgressNames == { <<"a", "b">>, <<"A", "B">>, <<"z">> }

PeriodArgs == {0, 30}

\* A behaviour starts from the session in which attendance was saved for
\* 'ab' on the first day.
InitProgress ==
    /\ state = SaveAttendance(initialize_default_state, <<"a", "b">>, NoneVal,
                              NoneVal, Days[1], 0).state
    /\ today = Days[1]
    /\ clock = 1
    /\ ret = NoCall
    /\ store = NoStore
    /\ nextId = 1
    /\ appended = <<>>
    /\ calls = 0
    /\ requests = NoRequests

ProgressCalled ==
    /\ calls < MaxProgressCalls
    /\ calls' = calls + 1
    /\ UNCHANGED <<today, clock, store, nextId, appended, requests>>

analyze_student_progress ==
    \E student_name \in ProgressNames, time_period_days \in PeriodArgs :
        LET r == AnalyzeStudentProgress(state, student_name, time_period_days,
                                        today, clock, calls)
        IN  /\ state' = r.state
            /\ ret' = r.ret @@ [student_name_arg |-> student_name]
            /\ ProgressCalled

\* clear_user_data called between the analyses.
clear_between_analyses ==
    \E data_type \in DataTypeArgs :
        LET r == ClearUserData(state, data_type, clock)
        IN  state' = r.state /\ ret' = r.ret /\ ProgressCalled

\* save_attendance called between the analyses.
save_between_analyses ==
    \E date_str \in DateArgs :
        LET r == SaveAttendance(state, <<"a", "b">>, NoneVal, date_str, today, clock)
        IN  state' = r.state /\ ret' = r.ret /\ ProgressCalled

\* A second passes between two calls.
NextProgressSecond ==
    /\ clock < MaxSecond
    /\ clock' = clock + 1
    /\ UNCHANGED <<state, today, ret, store, nextId, appended, calls, requests>>

NextProgress ==
    \/ analyze_student_progress
    \/ clear_between_analyses
    \/ save_between_analyses
    \/ NextProgressSecond

SpecProgress == InitProgress /\ [][NextProgress]_vars

-----------------------------------------------------------------------------
(* clean_state_data and safe_json_serializable                            *)
(* (manager/agent.py and the copies in the sub-agents)                     *)

\* The documents of the specifications above hold only what the tools
\* write: strings, numbers, lists and dicts with string keys, all JSON
\* values.  A value of any other Python type can only sit under a key that
\* no tool writes; the model keeps such a value under the key "extra", as a
\* record that names its Python type:
\*   [py |-> "str", s]  [py |-> "int", n]  [py |-> "bytes", decoded]
\*   [py |-> "datetime", stamp]  [py |-> "date", day]
\*   [py |-> "list", items]  [py |-> "dict", entries]
\*   [py |-> "object", module, class, fields]
PyStr(s) == [py |-> "str", s |-> s]

PyInt(n) == [py |-> "int", n |-> n]

PyBytes(decoded) == [py |-> "bytes", decoded |-> decoded]

PyDateTime(stamp) == [py |-> "datetime", stamp |-> stamp]

PyDate(day) == [py |-> "date", day |-> day]

PyList(items) == [py |-> "list", items |-> items]

PyDict(entries) == [py |-> "dict", entries |-> entries]

PyObject(module, class, fields) ==
    [py |-> "object", module |-> module, class |-> class, fields |-> fields]

\* json.dumps(value) succeeds.
RECURSIVE Dumpable(_)
Dumpable(v) ==
    CASE v.py \in {"str", "int"} -> TRUE
      [] v.py = "list" -> \A i \in DOMAIN v.items : Dumpable(v.items[i])
      [] v.py = "dict" -> \A k \in DOMAIN v.entries : Dumpable(v.entries[k])
      [] OTHER -> FALSE

\* json.loads(json.dumps(value)), for a value that json.dumps accepts.
RECURSIVE JsonRoundTrip(_)
JsonRoundTrip(v) ==
    CASE v.py = "str" -> PyStr(v.s)
      [] v.py = "int" -> PyInt(v.n)
      [] v.py = "list" -> PyList([i \in DOMAIN v.items |-> JsonRoundTrip(v.items[i])])
      [] v.py = "dict" ->
            PyDict([k \in DOMAIN v.entries |-> JsonRoundTrip(v.entries[k])])

\* isinstance(obj, date): the branch of lines 24-25, which the copies of the
\* evaluation, progress, learning-path and resource agents do not have.
\* A datetime was taken by the branch before.
HandlesDate(agent) == agent \in {"manager", "attendance"}

\* obj.decode('utf-8', errors='ignore')
BytesText(v) == PyStr(v.decoded)

\* safe_json_serializable(obj), of the agent whose module holds it.
RECURSIVE SafeJsonSerializable(_, _)
SafeJsonSerializable(agent, v) ==
    CASE v.py = "bytes" -> BytesText(v)
      [] v.py = "datetime" -> PyStr(v.stamp)
      [] v.py = "date" -> IF HandlesDate(agent) THEN PyStr(v.day) ELSE v
      [] v.py = "dict" ->
            PyDict([k \in DOMAIN v.entries |-> SafeJsonSerializable(agent, v.entries[k])])
      [] v.py = "list" ->
            PyList([i \in DOMAIN v.items |-> SafeJsonSerializable(agent, v.items[i])])
      [] v.py = "object" ->
            IF HandlesDate(agent) /\ v.module = "google.adk"
            THEN PyStr("<" \o v.class \o " object>")
            ELSE SafeJsonSerializable(agent, PyDict(v.fields))
      [] OTHER -> v

\* The keys of a document that may hold a value no tool wrote.
ExtraKeys == {"extra"}

\* json.dumps(tool_context.state) succeeds.
StateDumpable(s) == \A k \in DOMAIN s \cap ExtraKeys : Dumpable(s[k])

\* clean_state_data(tool_context).  The manager and the attendance agent
\* clean the values that json.dumps rejects, key by key; the other agents
\* replace the state by safe_json_serializable(state).
CleanStateData(agent, s) ==
    IF StateDumpable(s) THEN s
    ELSE [k \in DOMAIN s |->
            IF k \in ExtraKeys /\ (agent \notin {"manager", "attendance"} \/ ~Dumpable(s[k]))
            THEN SafeJsonSerializable(agent, s[k])
            ELSE s[k]]

-----------------------------------------------------------------------------
(* The cleanup specification: tool calls on a document that holds a value  *)
(* of a type JSON does not have                                            *)

MaxCleanCalls == 2

\* Values of the kinds the cleanup pass is written for: bytes, date and
\* time values and objects, alone and inside lists, dicts and objects.
ExtraValues ==
    { PyStr("plain"),
      PyBytes("raw"),
      PyDateTime("2025-01-01T09:00:00"),
      PyDate("2025-01-01"),
      PyList(<<PyInt(1), PyBytes("raw")>>),
      PyDict([when |-> PyDateTime("2025-01-01T09:00:00"), n |-> PyInt(2)]),
      PyDict([day |-> PyDate("2025-01-02")]),
      PyObject("app", "Note", [text |-> PyStr("hi"), raw |-> PyBytes("b")]),
      PyObject("google.adk", "ToolContext", [n |-> PyInt(1)]) }

InitClean ==
    /\ \E extra \in ExtraValues :
          state = SetItem(initialize_default_state, "extra", extra)
    /\ today = Days[1]
    /\ clock = 1
    /\ ret = NoCall
    /\ store = NoStore
    /\ nextId = 1
    /\ appended = <<>>
    /\ calls = 0
    /\ requests = NoRequests

CleanCalled ==
    /\ calls < MaxCleanCalls
    /\ calls' = calls + 1
    /\ clock' = clock + 1
    /\ UNCHANGED <<today, store, nextId, appended, requests>>

\* log_interaction of the manager: clean_state_data at lines 236 and 263.
manager_tool_call ==
    \E type \in {"query", "note"} :
        /\ state' = CleanStateData("manager",
                        LogInteraction(CleanStateData("manager", state),
                                       type, "question", clock))
        /\ ret' = [action |-> "log_interaction", agent |-> "manager"]
        /\ CleanCalled

\* save_attendance: clean_state_data at lines 73 and 177.
attendance_tool_call ==
    \E raw_name \in {<<"a", "b">>, <<"b">>} :
        LET r == SaveAttendance(CleanStateData("attendance", state), raw_name,
                                NoneVal, NoneVal, today, clock)
        IN  /\ state' = IF r.ret.status = "success"
                        THEN CleanStateData("attendance", r.state) ELSE r.state
            /\ ret' = [action |-> "save_attendance", agent |-> "attendance"]
            /\ CleanCalled

\* start_student_evaluation: clean_state_data at lines 49 and 169.
evaluation_tool_call ==
    \E raw_name \in {<<"a", "b">>, <<"b">>} :
        /\ state' = CleanStateData("evaluation",
                        StartStudentEvaluation(CleanStateData("evaluation", state),
                                               raw_name, clock).state)
        /\ ret' = [action |-> "start_student_evaluation", agent |-> "evaluation"]
        /\ CleanCalled

NextClean == manager_tool_call \/ attendance_tool_call \/ evaluation_tool_call

SpecClean == InitClean /\ [][NextClean]_vars

(***************************************************************************)
(* Failing calls: what a tool or an endpoint hands to its caller when its  *)
(* input is not of the declared type or the store fails                    *)
(* (manager/agent.py, student_evaluation_agent/agent.py, main.py)          *)
(***************************************************************************)

\* Python's None as an argument of a call.
PyNone == [py |-> "none"]

\* What a call hands to its caller: the returned dict, or the exception that
\* left the function.
Returned(value) == [raised |-> FALSE, value |-> value]

Raised(exception) == [raised |-> TRUE, exception |-> exception]

\* set_user_preferences(preferences) for any Python value: lines 138-167.
\* current_prefs.update(preferences) at line 145 is outside every try block:
\* dict.update(None) raises TypeError and dict.update("hindi") ValueError
\* (an update sequence element of length 1), and nothing has been written.
SetUserPreferencesOf(s, preferences, tick) ==
    IF preferences.py = "dict"
    THEN LET r == SetUserPreferences(s, preferences.entries, tick)
         IN  [state |-> r.state, out |-> Returned(r.ret)]
    ELSE [state |-> s,
          out |-> Raised(IF preferences.py = "none" THEN "TypeError" ELSE "ValueError")]

\* update_user_info(name, role) for any role: lines 80-123.  role.lower() of
\* None raises inside the try of lines 87-97, after user_name was written
\* and before user_role is; the except prints a warning and the tool goes
\* on to count, log and return its usual value.
UpdateUserInfoOf(s, name, role, tick) ==
    IF role.py = "str"
    THEN LET r == UpdateUserInfo(s, name, role.s, tick)
         IN  [state |-> r.state, out |-> Returned(r.ret)]
    ELSE LET s1 == SetItem(s, "user_name", name)
             session_count == Get(s1, "session_count", 0) + 1
             s2 == SetItem(s1, "session_count", session_count)
         IN  [state |-> LogInteraction(s2, "user_info_update",
                                       "Updated to " \o name \o " (None)", tick),
              out |-> Returned([action |-> "update_user_info", name |-> name,
                                role |-> NoneVal,
                                old_name |-> Get(s, "user_name", ""),
                                old_role |-> Get(s, "user_role", ""),
                                session_count |-> session_count])]

\* record_evaluation_answer(session_id, answer) for any answer: lines
\* 205-288.  answer.strip() of None raises while the answer entry is being
\* built, before anything is stored; the except of lines 282-288 turns it
\* into an error value.
RecordEvaluationAnswerOf(s, session_id, answer, tick) ==
    LET evaluation_sessions == Get(s, "evaluation_sessions", EmptyDict)
        probe == RecordEvaluationAnswer(s, session_id, "", tick)
    IN  IF answer.py = "str"
        THEN LET r == RecordEvaluationAnswer(s, session_id, answer.s, tick)
             IN  [state |-> r.state, out |-> Returned(r.ret)]
        ELSE IF probe.ret.status = "error"
        THEN [state |-> s, out |-> Returned(probe.ret)]
        ELSE [state |-> s,
              out |-> Returned([action |-> "record_evaluation_answer",
                                status |-> "error",
                                message |-> "Failed to record answer: 'NoneType' object has no attribute 'strip'"])]

\* The value POST /api/sessions/{user_id}?force_new=true answers with:
\* lines 229-255 of main.py.
CreateUserSessionResponse(user_id, session_id, create) ==
    IF create = "created"
    THEN Returned([user_id |-> user_id, session_id |-> session_id,
                   message |-> "Session ready"])
    ELSE Returned([error |-> "Failed to create/get session: store failure"])

\* The value GET /api/sessions/{user_id}/{session_id} answers with: lines
\* 260-279 of main.py.  get_session of a session the store does not hold
\* gives None, and session.state then raises inside the try.
GetSessionDetailsResponse(st, user_id, session_id, fetch) ==
    IF fetch = "session"
    THEN Returned([app_name |-> "Sahayak Educational Agent", user_id |-> user_id,
                   session_id |-> session_id,
                   state |-> st[user_id][CHOOSE i \in DOMAIN st[user_id] :
                                         st[user_id][i].id = session_id].state,
                   message |-> "Session details retrieved successfully"])
    ELSE Returned([error |-> "Failed to retrieve session details"])

(***************************************************************************)
(* The failure specification: tools and endpoints called with inputs of    *)
(* any type against a store that may fail                                  *)
(***************************************************************************)

MaxErrorCalls == 3

PreferenceInputs == { PyDict([language |-> "hindi"]), PyStr("hindi"), PyNone }

RoleInputs == { PyStr("Teacher"), PyNone }

AnswerInputs == { PyStr("reading"), PyNone }

InitErrors ==
    /\ state = StartStudentEvaluation(initialize_default_state, <<"a", "b">>, 1).state
    /\ today = "2025-01-01"
    /\ clock = 1
    /\ ret = NoCall
    /\ store = [u \in Users |-> <<>>]
    /\ nextId = 1
    /\ appended = <<>>
    /\ calls = 0
    /\ requests = NoRequests

ToolCalled ==
    /\ calls < MaxErrorCalls
    /\ calls' = calls + 1
    /\ UNCHANGED <<today, clock, store, nextId, appended, requests>>

set_user_preferences_of_any ==
    \E preferences \in PreferenceInputs :
        LET r == SetUserPreferencesOf(state, preferences, clock)
        IN  /\ state' = r.state
            /\ ret' = [action |-> "set_user_preferences",
                       failed |-> preferences.py # "dict", out |-> r.out]
            /\ ToolCalled

update_user_info_of_any ==
    \E role \in RoleInputs :
        LET r == UpdateUserInfoOf(state, "Asha", role, clock)
        IN  /\ state' = r.state
            /\ ret' = [action |-> "update_user_info",
                       failed |-> role.py # "str", out |-> r.out]
            /\ ToolCalled

record_evaluation_answer_of_any ==
    \E session_id \in DOMAIN Get(state, "evaluation_sessions", EmptyDict)
                      \cup {"eval_ghost"},
       answer \in AnswerInputs :
        LET r == RecordEvaluationAnswerOf(state, session_id, answer, clock)
        IN  /\ state' = r.state
            /\ ret' = [action |-> "record_evaluation_answer",
                       failed |-> \/ answer.py # "str"
                                  \/ session_id = "eval_ghost",
                       out |-> r.out]
            /\ ToolCalled

create_user_session_answer ==
    \E user_id \in Users, create \in CreateSessionOutcomes(nextId) :
        /\ calls < MaxErrorCalls
        /\ calls' = calls + 1
        /\ store' = IF create = "created"
                    THEN CreateSession(store, user_id, nextId, initialize_default_state)
                    ELSE store
        /\ nextId' = IF create = "created" THEN nextId + 1 ELSE nextId
        /\ ret' = [action |-> "create_user_session", failed |-> create = "raise",
                   out |-> CreateUserSessionResponse(user_id, SessionId(nextId), create)]
        /\ UNCHANGED <<state, today, clock, appended, requests>>

get_session_details_answer ==
    \E user_id \in Users, session_id \in SessionIdArgs \ {NoneVal} :
    \E fetch \in GetSessionOutcomes(store, user_id, session_id) :
        /\ calls < MaxErrorCalls
        /\ calls' = calls + 1
        /\ ret' = [action |-> "get_session_details", failed |-> fetch # "session",
                   out |-> GetSessionDetailsResponse(store, user_id, session_id, fetch)]
        /\ UNCHANGED <<state, today, clock, store, nextId, appended, requests>>

NextErrors ==
    \/ set_user_preferences_of_any
    \/ update_user_info_of_any
    \/ record_evaluation_answer_of_any
    \/ create_user_session_answer
    \/ get_session_details_answer

SpecErrors == InitErrors /\ [][NextErrors]_vars

-----------------------------------------------------------------------------
(* get_attendance_summary (manager/sub_agents/attendance_agent/agent.py) *)

Digit == {"0", "1", "2", "3", "4", "5", "6", "7", "8", "9"}

\* Whether datetime.fromisoformat(text) accepts text as a date: four digits,
\* '-', a month, '-', a day of the month.  Anything else raises ValueError.
IsIsoDate(text) ==
    /\ Len(text) = 10
    /\ \A i \in {1, 2, 3, 4, 6, 7, 9, 10} : SubSeq(text, i, i) \in Digit
    /\ SubSeq(text, 5, 5) = "-"
    /\ SubSeq(text, 8, 8) = "-"
    /\ SubSeq(text, 6, 7) \in {"01", "02", "03", "04", "05", "06",
                               "07", "08", "09", "10", "11", "12"}
    /\ SubSeq(text, 9, 9) \in {"0", "1", "2", "3"}
    /\ SubSeq(text, 9, 10) \notin {"00", "32", "33", "34", "35", "36",
                                   "37", "38", "39"}

\* The keys of the records the filter loop of lines 291-296 parses: the
\* records of the student.  The records of other students are skipped
\* before their date is read.
StudentRecordKeys(student_id, attendance_records) ==
    {k \in DOMAIN attendance_records :
        Get(attendance_records[k], "student_id", NoneVal) = student_id}

\* The summary figures of one student: lines 290-300 and 319-328.  The loop
\* raises ValueError at a record of the student whose date does not parse.
StudentSummary(student_id, attendance_records, start_date, end_date) ==
    IF \E k \in StudentRecordKeys(student_id, attendance_records) :
           ~IsIsoDate(attendance_records[k].date)
    THEN Raised("ValueError")
    ELSE LET student_records ==
                 WindowRecords(student_id, attendance_records, start_date, end_date)
             total_days == Cardinality(student_records)
             present_days == WithStatus(attendance_records, student_records, "present")
         IN  Returned([total_days |-> total_days,
                       present_days |-> present_days,
                       attendance_percentage |->
                           PercentageHundredths(present_days, total_days),
                       records |-> {attendance_records[k] : k \in student_records}])

\* The except of lines 347-353.
SummaryFailed ==
    [action |-> "get_attendance_summary", status |-> "error",
     message |-> "Failed to get attendance summary"]

\* get_attendance_summary(student_name, date_range_days) on the day `day`:
\* lines 263-353.  student_name is PyNone or a str given by its characters;
\* percentages are in hundredths, as round(..., 2) leaves them.
GetAttendanceSummary(s, student_name, date_range_days, day) ==
    LET students_db == Get(s, "students_database", EmptyDict)
        attendance_records == Get(s, "attendance_records", EmptyDict)
        end_date == DayNo(day)
        start_date == end_date - date_range_days
        date_range == DateText(start_date) \o " to " \o DateText(end_date)
    IN  IF student_name.py = "str" /\ student_name.chars # <<>>
        THEN LET student_id == FindStudent(students_db, student_name.chars)
             IN  IF student_id = NoneVal
                 THEN [action |-> "get_attendance_summary", status |-> "error",
                       message |-> "Student not found"]
                 ELSE LET r == StudentSummary(student_id, attendance_records,
                                              start_date, end_date)
                      IN  IF r.raised THEN SummaryFailed
                          ELSE [action |-> "get_attendance_summary",
                                student_name |-> student_name.chars,
                                student_id |-> student_id,
                                date_range |-> date_range,
                                summary |-> [total_days |-> r.value.total_days,
                                             present_days |-> r.value.present_days,
                                             attendance_percentage |->
                                                 r.value.attendance_percentage],
                                records |-> r.value.records]
        ELSE LET n == Cardinality(DOMAIN students_db)
                 one(i) == StudentSummary(StudentIdNo(i), attendance_records,
                                          start_date, end_date)
             IN  IF \E i \in 1..n : one(i).raised THEN SummaryFailed
                 ELSE [action |-> "get_attendance_summary",
                       date_range |-> date_range,
                       total_students |-> n,
                       summaries |->
                           [i \in 1..n |->
                               [student_id |-> StudentIdNo(i),
                                student_name |-> Get(students_db[StudentIdNo(i)],
                                                     "name", NoneVal),
                                grade |-> Get(students_db[StudentIdNo(i)],
                                              "grade", NoneVal),
                                total_days |-> one(i).value.total_days,
                                present_days |-> one(i).value.present_days,
                                attendance_percentage |->
                                    one(i).value.attendance_percentage]]]

-----------------------------------------------------------------------------
(* The summary specification: attendance is saved under any date_str and   *)
(* summarised on the days of the calendar                                  *)

SummaryRawNames == { <<"a", "b">>, <<"b">> }

SummaryDateArgs == {NoneVal, Days[1], "tomorrow"}

SummaryNameArgs ==
    {PyNone} \cup {[py |-> "str", chars |-> n] :
                      n \in {<<>>, <<"a", "b">>, <<"A", "B">>, <<"z">>}}

RangeDaysArgs == {0, 1, 30}

\* One call of save_attendance(student_name, None, date_str), date_str being
\* any string the caller passes.
save_attendance_on ==
    \E raw_name \in SummaryRawNames, date_str \in SummaryDateArgs :
        LET r == SaveAttendance(state, raw_name, NoneVal, date_str, today, clock)
        IN  /\ state' = r.state
            /\ ret' = [r.ret EXCEPT !.action = "save_attendance"] @@
                      [raw_name |-> raw_name, date_arg |-> date_str]
            /\ UNCHANGED <<today, clock, store, nextId, appended, calls, requests>>

\* One call of the tool get_attendance_summary(student_name, date_range_days).
get_attendance_summary ==
    \E student_name \in SummaryNameArgs, date_range_days \in RangeDaysArgs :
        /\ ret' = GetAttendanceSummary(state, student_name, date_range_days, today)
                  @@ [student_name_arg |-> student_name,
                      date_range_days_arg |-> date_range_days,
                      today_arg |-> today]
        /\ UNCHANGED <<state, today, clock, store, nextId, appended, calls, requests>>

NextSummary == save_attendance_on \/ get_attendance_summary \/ NextDay

SpecSummary == InitAttendance /\ [][NextSummary]_vars

-----------------------------------------------------------------------------
(* The score specification: calculate_overall_progress_score on the        *)
(* figures the three analyses hand to it                                   *)

MaxScoreDays == 10

MaxTests == 3

\* The whole-number test scores of the model's quiz results.
McqScores == {0, 80, 100}

\* sum(scores), line 240.
RECURSIVE SumOf(_)
SumOf(scores) ==
    IF scores = <<>> THEN 0 ELSE Head(scores) + SumOf(Tail(scores))

\* round(sum(scores) / total_tests, 2), lines 240 and 284, in hundredths.
AverageHundredths(total, count) == (200 * total + count) \div (2 * count)

\* attendance_data as analyze_attendance_pattern returns it for a student
\* with `total` records in the window, `present` of them present.
AttendanceInputs ==
    UNION {{[total_days |-> total, present_days |-> present,
             attendance_percentage |-> PercentageHundredths(present, total)] :
               present \in 0..total} : total \in 0..MaxScoreDays}

\* mcq_data as analyze_mcq_performance returns it: no test, or the rounded
\* average of one to MaxTests scores.
McqInputs ==
    {[total_tests |-> 0, average_score |-> 0]} \cup
    {[total_tests |-> Len(scores),
      average_score |-> AverageHundredths(SumOf(scores), Len(scores))] :
        scores \in UNION {[1..count -> McqScores] : count \in 1..MaxTests}}

\* games_data as analyze_game_engagement returns it, or a dict without the
\* key engagement_level.
GamesInputs ==
    {[engagement_level |-> level] : level \in {"high", "moderate", "low", "no_data"}}
    \cup {[total_games |-> 0]}

\* The analysis under construction at line 130 of analyze_student_progress.
InitScore ==
    /\ \E attendance_data \in AttendanceInputs, mcq_data \in McqInputs,
          games_data \in GamesInputs :
           state = [attendance_analysis |-> attendance_data,
                    mcq_performance |-> mcq_data,
                    games |-> games_data]
    /\ today = Days[1]
    /\ clock = 0
    /\ ret = NoCall
    /\ store = NoStore
    /\ nextId = 1
    /\ appended = <<>>
    /\ calls = 0
    /\ requests = NoRequests

\* Lines 130-133 of analyze_student_progress: the score is computed and
\* stored in the analysis.
calculate_overall_progress_score ==
    /\ "overall_score" \notin DOMAIN state
    /\ LET overall_score ==
               CalculateOverallProgressScore(state.attendance_analysis,
                                             state.mcq_performance, state.games)
       IN  /\ state' = SetItem(state, "overall_score", overall_score)
           /\ ret' = [action |-> "calculate_overall_progress_score",
                      overall_score |-> overall_score]
    /\ UNCHANGED <<today, clock, store, nextId, appended, calls, requests>>

NextScore == calculate_overall_progress_score

SpecScore == InitScore /\ [][NextScore]_vars

-----------------------------------------------------------------------------
(* The command-line loop (cli.py), the delete endpoint (main.py) and        *)
(* cleanup_old_sessions (session_utils.py)                                  *)

\* str.startswith(prefix)
StartsWith(w, prefix) ==
    Len(w) >= Len(prefix) /\ SubSeq(w, 1, Len(prefix)) = prefix

\* The first word of a line without leading blanks, and what follows it.
RECURSIVE FirstWord(_)
FirstWord(w) ==
    IF w = "" \/ SubSeq(w, 1, 1) = " " THEN ""
    ELSE SubSeq(w, 1, 1) \o FirstWord(SubSeq(w, 2, Len(w)))

\* str.split(): the words between runs of blanks.
RECURSIVE Split(_)
Split(w) ==
    LET line == StrLStrip(w)
        word == FirstWord(line)
    IN  IF line = "" THEN <<>>
        ELSE <<word>> \o Split(SubSeq(line, Len(word) + 1, Len(line)))

\* The tuple of line 197.
CommandPrefixes ==
    {"help", "sessions", "switch", "new", "state", "backup", "clear"}

\* Line 197: user_input.startswith((...)).
IsCommandLine(user_input) ==
    \E prefix \in CommandPrefixes : StartsWith(user_input, prefix)

\* handle_command(command, user_id, session_id), lines 84-155, under the
\* outcomes of the store calls it makes: the store afterwards, the session id
\* returned and the branch taken.
HandleCommand(st, next, user_id, session_id, command, fetch, create) ==
    LET parts == Split(StrStrip(command))
        cmd == LowerWord(parts[1])
        same(branch) == [store |-> st, next |-> next, session_id |-> session_id,
                         handled |-> branch]
    IN  IF cmd = "help" THEN same("help")
        ELSE IF cmd = "sessions" THEN same("sessions")
        ELSE IF cmd = "switch" /\ Len(parts) > 1
        THEN IF fetch = "raise" THEN same("switch failed")
             ELSE [store |-> st, next |-> next, session_id |-> parts[2],
                   handled |-> "switch"]
        ELSE IF cmd = "new"
        THEN IF create = "raise" THEN same("new failed")
             ELSE [store |-> CreateSession(st, user_id, next, initialize_default_state),
                   next |-> next + 1, session_id |-> SessionId(next),
                   handled |-> "new"]
        ELSE IF cmd = "state" THEN same("state")
        ELSE IF cmd = "backup" THEN same("backup")
        ELSE IF cmd = "clear" THEN same("clear")
        ELSE same("unknown command")

\* One turn of the loop of main_async, lines 181-207, on the line read.
MainLoopTurn(st, next, user_id, session_id, line, fetch, create) ==
    LET user_input == StrStrip(line)
        same(branch) == [store |-> st, next |-> next, session_id |-> session_id,
                         handled |-> branch]
    IN  IF LowerWord(user_input) \in {"exit", "quit", "q"} THEN same("exit")
        ELSE IF user_input = "" THEN same("skipped")
        ELSE IF IsCommandLine(user_input)
        THEN HandleCommand(st, next, user_id, session_id, user_input, fetch, create)
        ELSE same("agent")

\* cleanup_old_sessions(session_service, app_name, user_id, keep_latest):
\* lines 423-447.  Nothing is removed; the sessions beyond keep_latest are
\* reported.
CleanupOldSessions(st, user_id, keep_latest, list) ==
    IF list.kind = "raise"
    THEN [status |-> "error", message |-> "Cleanup failed"]
    ELSE IF Len(st[user_id]) <= keep_latest
    THEN [status |-> "success", sessions_removed |-> 0]
    ELSE [status |-> "info",
          would_remove |-> Len(st[user_id]) - keep_latest,
          sessions_kept |-> keep_latest]

\* DELETE /api/sessions/{user_id}/{session_id}: lines 283-291 of main.py.
DeleteSession(user_id, session_id) ==
    [message |-> "Session deletion not implemented in current ADK version"]

-----------------------------------------------------------------------------
(* The command-line specification: one user at the prompt, while the HTTP   *)
(* API and the session utilities work on the same store                     *)

\* The user at the prompt.
CliUser == "u1"

CliLines ==
    {"help", "sessions", "switch s1", "switch ghost", "switch", "new", "state",
     "backup", "clear", "quit", "", "what is new", "newton laws",
     "new ideas for class", "state the law", "helpful tips"}

KeepLatestArgs == {0, 1, 5}

\* `state' holds the locals of main_async, lines 163-170: the user id and the
\* id get_or_create_session returned for a user without sessions.
InitCli ==
    /\ store = CreateSession([u \in Users |-> <<>>], CliUser, 1,
                             initialize_default_state)
    /\ nextId = 2
    /\ state = [user_id |-> CliUser, session_id |-> SessionId(1), running |-> TRUE]
    /\ today = "2025-01-01"
    /\ clock = 0
    /\ ret = NoCall
    /\ appended = <<>>
    /\ calls = 0
    /\ requests = NoRequests

\* The user enters a line.
cli_line ==
    /\ state.running
    /\ \E line \in CliLines :
       \E fetch \in IF Len(Split(line)) > 1
                    THEN GetSessionOutcomes(store, state.user_id, Split(line)[2])
                    ELSE {"skipped"},
          create \in CreateSessionOutcomes(nextId) :
           LET r == MainLoopTurn(store, nextId, state.user_id, state.session_id,
                                 line, fetch, create)
           IN  /\ store' = r.store
               /\ nextId' = r.next
               /\ state' = [state EXCEPT !.session_id = r.session_id,
                                         !.running = r.handled # "exit"]
               /\ ret' = [action |-> "cli", line |-> line, handled |-> r.handled,
                          was |-> state.session_id, had |-> store]
    /\ UNCHANGED <<today, clock, appended, calls, requests>>

\* A client calls the delete endpoint.
delete_session ==
    \E user_id \in Users, session_id \in SessionIdArgs \ {NoneVal, ""} :
        /\ ret' = DeleteSession(user_id, session_id)
                  @@ [action |-> "delete_session", user_id |-> user_id,
                      session_id_arg |-> session_id, had |-> store]
        /\ UNCHANGED <<state, today, clock, store, nextId, appended, calls, requests>>

\* The cleanup utility is run for a user.
cleanup_old_sessions ==
    \E user_id \in Users, keep_latest \in KeepLatestArgs :
    \E list \in ListSessionsOutcomes(store, user_id) :
        /\ ret' = CleanupOldSessions(store, user_id, keep_latest, list)
                  @@ [action |-> "cleanup_old_sessions", user_id |-> user_id,
                      keep_latest |-> keep_latest, had |-> store]
        /\ UNCHANGED <<state, today, clock, store, nextId, appended, calls, requests>>

NextCli ==
    \/ cli_line
    \/ delete_session
    \/ cleanup_old_sessions
    \/ create_user_session
    \/ get_or_create_session

SpecCli == InitCli /\ [][NextCli]_vars

-----------------------------------------------------------------------------
(* The emotional-response specification: an evaluation of 'ab' from its     *)
(* eleventh question, the emotional-response one, to its end                *)

MaxEmotionCalls == 6

\* Answers to the emotional-response question: every keyword alone, pairs of
\* keywords of different rank, and none.
EmotionAnswers ==
    { "frustrated", "i get angry", "sad", "i give up", "i ask", "help me",
      "reading", " I get angry but ask ", "frustrated and sad",
      "sad but i ask for help", "I am frustrated, sad, and ask for help",
      "i try again" }

\* The evaluation session of the specification.
EmotionSessionId == EvalSessionId(1, <<"A", "b">>)

InitEmotion ==
    /\ state = Evaluated(initialize_default_state, 10, 1)
    /\ clock = 1
    /\ today = "2025-01-01"
    /\ ret = NoCall
    /\ store = NoStore
    /\ nextId = 1
    /\ appended = <<>>
    /\ calls = 0
    /\ requests = NoRequests

EmotionCalled ==
    /\ calls < MaxEmotionCalls
    /\ calls' = calls + 1
    /\ UNCHANGED <<today, clock, store, nextId, appended, requests>>

\* The question record_evaluation_answer is waiting for.
PendingQuestion ==
    LET session == EvaluationSessions[EmotionSessionId]
    IN  IF session.current_question_index < Len(session.questions)
        THEN session.questions[session.current_question_index + 1].type
        ELSE "none"

\* record_evaluation_answer on the session: one of the answers above to the
\* emotional-response question, 'reading' to the others.
answer_pending_question ==
    \E answer \in IF PendingQuestion = "emotional_response"
                  THEN EmotionAnswers ELSE {"reading"} :
        LET r == RecordEvaluationAnswer(state, EmotionSessionId, answer, clock)
        IN  /\ state' = r.state
            /\ ret' = r.ret @@ [session_id_arg |-> EmotionSessionId,
                                answer_arg |-> answer]
            /\ EmotionCalled

\* analyze_student_responses on the session, whatever its status.
analyze_session ==
    LET r == AnalyzeStudentResponses(state, EmotionSessionId, clock)
    IN  /\ state' = r.state
        /\ ret' = [action |-> "analyze_student_responses",
                   session_id_arg |-> EmotionSessionId, result |-> r.ret]
        /\ EmotionCalled

NextEmotion ==
    \/ answer_pending_question
    \/ analyze_session

SpecEmotion == InitEmotion /\ [][NextEmotion]_vars

-----------------------------------------------------------------------------
(* The clearing specification: save_attendance and clear_user_data on one   *)
(* session                                                                  *)

MaxClearCalls == 2

\* Lines 325-331 on a state object without __delitem__: the test of line 329
\* fails for every key, nothing is removed, and lines 346-353 set the
\* skeleton over what is there.
ResetAllInPlace(s) ==
    LET skeleton == ResetAll(s)
    IN  [key \in DOMAIN s \cup DOMAIN skeleton |->
            IF key \in DOMAIN skeleton THEN skeleton[key] ELSE s[key]]

\* clear_user_data(data_type), lines 286-371, on a state object that has
\* __delitem__ or has not (the test of line 329).
ClearUserDataOn(s, data_type, tick, has_delitem) ==
    IF has_delitem \/ LowerWord(data_type) # "all"
    THEN ClearUserData(s, data_type, tick)
    ELSE [state |-> LogInteraction(ResetAllInPlace(s), "data_cleanup",
                                   "Cleared " \o data_type \o " data", tick),
          ret |-> [action |-> "clear_user_data", data_type |-> data_type]]

\* One call of the tool clear_user_data(data_type).
clear_user_data_on ==
    /\ calls < MaxClearCalls
    /\ \E data_type \in DataTypeArgs, has_delitem \in BOOLEAN :
        LET r == ClearUserDataOn(state, data_type, clock, has_delitem)
        IN  /\ state' = r.state
            /\ ret' = r.ret @@ [has_delitem |-> has_delitem]
    /\ calls' = calls + 1
    /\ UNCHANGED <<today, clock, store, nextId, appended, requests>>

\* One call of save_attendance(student_name) for the day.
save_attendance_today ==
    \E raw_name \in SummaryRawNames :
        LET r == SaveAttendance(state, raw_name, NoneVal, NoneVal, today, clock)
        IN  /\ state' = r.state
            /\ ret' = [r.ret EXCEPT !.action = "save_attendance"] @@
                      [raw_name |-> raw_name]
            /\ UNCHANGED <<today, clock, store, nextId, appended, calls, requests>>

NextClear == save_attendance_today \/ clear_user_data_on \/ NextDay

SpecClear == InitAttendance /\ [][NextClear]_vars

-----------------------------------------------------------------------------
(* The race specification: two save_attendance calls in flight on one       *)
(* session document                                                         *)

\* The calls in flight.  `overlapped' notes that a call has read the
\* document while the other call was between its read and its write.
Requests == {"r1", "r2"}

RaceNames == { <<"a", "b">>, <<"A", "B">>, <<"b">> }

RaceDates == {NoneVal, Days[2]}

Waiting == [pc |-> "waiting"]

InitRace ==
    /\ state = initialize_default_state
    /\ today = Days[1]
    /\ clock = 0
    /\ ret = NoCall
    /\ store = NoStore
    /\ nextId = 1
    /\ appended = <<>>
    /\ calls = 0
    /\ requests = [r \in Requests |-> Waiting]

\* Lines 90-91: the call reads students_database and attendance_records of
\* the document.  What it computes from here on, it computes from what it
\* has read.
save_attendance_reads ==
    \E r \in Requests, raw_name \in RaceNames, date_str \in RaceDates :
        /\ requests[r].pc = "waiting"
        /\ requests' =
              [q \in Requests |->
                  IF q = r
                  THEN [pc |-> "read", raw_name |-> raw_name,
                        date_str |-> date_str,
                        students_database |->
                            Get(state, "students_database", EmptyDict),
                        attendance_records |->
                            Get(state, "attendance_records", EmptyDict),
                        overlapped |->
                            \E other \in Requests : requests[other].pc = "read"]
                  ELSE IF requests[q].pc = "read"
                  THEN [requests[q] EXCEPT !.overlapped = TRUE]
                  ELSE requests[q]]
        /\ UNCHANGED <<state, today, clock, ret, store, nextId, appended, calls>>

\* The document a call has in hand: the keys it has read, in the document as
\* it is.
DocumentOf(r) ==
    SetItem(SetItem(state, "students_database", requests[r].students_database),
            "attendance_records", requests[r].attendance_records)

\* The assignments of lines 114 and 166-171, made to the document s: a key is
\* assigned when the call has changed what it read of it (a new student, a
\* new record and the count that goes with it).
WrittenBack(s, before, after) ==
    LET changed(key) == Get(after, key, EmptyDict) # Get(before, key, EmptyDict)
        s1 == IF changed("students_database")
              THEN SetItem(s, "students_database", after.students_database)
              ELSE s
    IN  IF changed("attendance_records")
        THEN SetItem(s1, "attendance_records", after.attendance_records)
        ELSE s1

\* Lines 93-175: the call finds or creates the student, builds the record and
\* assigns the keys it changed.
save_attendance_writes ==
    \E r \in Requests :
        /\ requests[r].pc = "read"
        /\ LET before == DocumentOf(r)
               call == SaveAttendance(before, requests[r].raw_name, NoneVal,
                                      requests[r].date_str, today, clock)
           IN  /\ state' = WrittenBack(state, before, call.state)
               /\ ret' = [call.ret EXCEPT !.action = "save_attendance"]
                         @@ [request |-> r]
               /\ requests' = [requests EXCEPT ![r] =
                                  [pc |-> "done",
                                   raw_name |-> requests[r].raw_name,
                                   date_str |-> requests[r].date_str,
                                   overlapped |-> requests[r].overlapped,
                                   status |-> call.ret.status,
                                   student_id |->
                                       IF "student_id" \in DOMAIN call.ret
                                       THEN call.ret.student_id ELSE NoneVal,
                                   was_new |->
                                       FindStudent(requests[r].students_database,
                                                   Title(Strip(requests[r].raw_name)))
                                           = NoneVal]]
        /\ UNCHANGED <<today, clock, store, nextId, appended, calls>>

NextRace == save_attendance_reads \/ save_attendance_writes \/ NextDay

SpecRace == InitRace /\ [][NextRace]_vars

-----------------------------------------------------------------------------
(* create_personalized_learning_path                                        *)
(* (manager/sub_agents/personalized_learning_agent/agent.py)                *)

Max(a, b) == IF a >= b THEN a ELSE b

\* Faulty variant of WeeksPerTopic: the faster pace is not kept at 1 or more.
WeeksPerTopicNoFloor(subject, favorite_subject, difficult_subject, duration_weeks, total_topics) ==
    LET weeks_per_topic == Max(1, duration_weeks \div total_topics)
    IN  IF Contains(LowerWord(difficult_subject), LowerWord(subject))
        THEN (3 * weeks_per_topic) \div 2
        ELSE IF Contains(LowerWord(favorite_subject), LowerWord(subject))
        THEN (4 * weeks_per_topic) \div 5
        ELSE weeks_per_topic

\* Lines 86-96: the weeks given to a topic; int(w * 1.5) and int(w * 0.8) of
\* a positive whole w are the whole parts of 3w/2 and 4w/5.
WeeksPerTopic(subject, favorite_subject, difficult_subject, duration_weeks, total_topics) ==
    LET weeks_per_topic == Max(1, duration_weeks \div total_topics)
    IN  IF Contains(LowerWord(difficult_subject), LowerWord(subject))
        THEN (3 * weeks_per_topic) \div 2
        ELSE IF Contains(LowerWord(favorite_subject), LowerWord(subject))
        THEN Max(1, (4 * weeks_per_topic) \div 5)
        ELSE weeks_per_topic

\* Lines 58-64: the first profile whose name matches without regard to case;
\* NoneVal when there is none.
ProfileNameOf(student_profiles, student_name) ==
    LET hits == {name \in DOMAIN student_profiles :
                    LowerWord(name) = LowerWord(student_name)}
    IN  IF hits = {} THEN NoneVal ELSE CHOOSE name \in hits : TRUE

\* Line 83: f"path_{now:%Y%m%d_%H%M%S}_{student_name}_{subject}"; the names
\* and subjects of the model have no blanks to replace.
PathId(tick, student_name, subject) ==
    "path_" \o Stamp(tick) \o "_" \o student_name \o "_" \o subject

\* Lines 99-121: the learning path before its weeks are planned.  The texts
\* generated for a week (activities, objectives, resources) are functions of
\* the topic and the profile; the plan keeps the week and the topic.
NewLearningPath(path_id, student_name, subject, duration_weeks, analysis, tick) ==
    LET style == analysis.learning_style_analysis
        academic == analysis.academic_analysis
    IN  [path_id |-> path_id,
         student_name |-> student_name,
         subject |-> subject,
         created_date |-> NowIso(tick),
         duration_weeks |-> duration_weeks,
         learning_style |-> style.primary_style,
         difficulty_level |-> "adaptive",
         weekly_plan |-> <<>>,
         assessment_schedule |-> <<>>,
         personalization_factors |->
            [learning_style |-> style.primary_style,
             social_preference |-> style.social_learning,
             emotional_support_needed |->
                analysis.emotional_analysis.emotional_stability # "stable",
             subject_affinity |->
                IF Contains(LowerWord(academic.favorite_subject), LowerWord(subject))
                THEN "high" ELSE "medium",
             challenge_level |->
                IF Contains(LowerWord(academic.challenging_subject), LowerWord(subject))
                THEN "high" ELSE "medium"],
         milestones |-> <<>>]

\* Lines 140-166: one turn of the while loop on the locals of the call.
PlanWeek(frame) ==
    LET current_topic == frame.curriculum_topics[frame.topic_index + 1]
        weekly_plan == [week |-> frame.current_week, topic |-> current_topic]
        planned == Append(frame.learning_path.weekly_plan, weekly_plan)
        milestones ==
            IF frame.current_week % 3 = 0
            THEN Append(frame.learning_path.milestones,
                        [week |-> frame.current_week, assessment_type |-> "formative"])
            ELSE frame.learning_path.milestones
    IN  [frame EXCEPT !.learning_path.weekly_plan = planned,
                      !.learning_path.milestones = milestones,
                      !.current_week = frame.current_week + frame.weeks_per_topic,
                      !.topic_index = frame.topic_index + 1]

\* Line 127: the test of the while loop.
LoopGoesOn(frame) ==
    /\ frame.current_week <= frame.duration_weeks
    /\ frame.topic_index < Len(frame.curriculum_topics)

\* Lines 168-196: the final assessment is added and the path is stored under
\* its id.
StoreLearningPath(s, frame) ==
    LET final_assessment ==
            [week |-> frame.duration_weeks, type |-> "summative",
             topics_covered |-> frame.curriculum_topics]
        learning_path ==
            [frame.learning_path EXCEPT
                !.assessment_schedule = Append(@, final_assessment)]
        learning_paths == Get(s, "learning_paths", EmptyDict)
    IN  [state |-> SetItem(s, "learning_paths",
                           SetItem(learning_paths, frame.learning_path.path_id,
                                   learning_path)),
         ret |-> [action |-> "create_personalized_learning_path",
                  status |-> "success",
                  path_id |-> frame.learning_path.path_id,
                  learning_path |-> learning_path,
                  summary |-> [total_weeks |-> Len(learning_path.weekly_plan),
                               total_topics |-> Len(frame.curriculum_topics)]]]

-----------------------------------------------------------------------------
(* The learning-path specification: create_personalized_learning_path on a  *)
(* session with one profile, the while loop taken turn by turn              *)

MaxPathCalls == 1

MaxWeeks == 7

\* The profile the analysis gives a student who likes art and finds
\* mathematics hard.
PathSession ==
    [student_name |-> "Ab",
     answers |-> [favorite_subject |-> [answer |-> "art"],
                  difficult_subject |-> [answer |-> "math"]]]

InitialProfiles ==
    [Ab |-> [profile_created |-> NowIso(0),
             last_evaluation |-> "eval_0",
             analysis |-> Analysis(PathSession, "eval_0", 0),
             raw_answers |-> PathSession.answers]]

PathStudents == {"ab", "zed"}

PathSubjects == {"math", "art", "music"}

TopicLists == {<<>>, <<"t1">>, <<"t1", "t2">>, <<"t1", "t2", "t3">>}

DurationArgs == {-1, 0, 1, 2, 3} \cup {MaxWeeks}

\* No call is running.
Idle == [pc |-> "idle"]

InitPath ==
    /\ state = SetItem(initialize_default_state, "student_profiles", InitialProfiles)
    /\ today = "2025-01-01"
    /\ clock = 1
    /\ ret = NoCall
    /\ store = NoStore
    /\ nextId = 1
    /\ appended = <<>>
    /\ calls = 0
    /\ requests = Idle

\* Lines 51-96: the call looks for the profile, returns an error without one,
\* and computes the pace; total_topics = 0 raises ZeroDivisionError at line
\* 87, which the except of lines 231-237 turns into an error.
create_path_called ==
    /\ requests.pc = "idle"
    /\ calls < MaxPathCalls
    /\ calls' = calls + 1
    /\ \E student_name \in PathStudents, subject \in PathSubjects,
          curriculum_topics \in TopicLists, duration_weeks \in DurationArgs :
         LET student_profiles == Get(state, "student_profiles", EmptyDict)
             found == ProfileNameOf(student_profiles, student_name)
             args == [student_name_arg |-> student_name, subject_arg |-> subject,
                      topics_arg |-> curriculum_topics,
                      duration_weeks_arg |-> duration_weeks]
             error(message) ==
                /\ ret' = [action |-> "create_personalized_learning_path",
                           status |-> "error", message |-> message] @@ args
                /\ requests' = Idle
         IN  IF found = NoneVal
             THEN error("No student profile found")
             ELSE IF Len(curriculum_topics) = 0
             THEN error("Failed to create learning path")
             ELSE
             LET analysis == student_profiles[found].analysis
                 path_id == PathId(clock, student_name, subject)
             IN  /\ requests' =
                       [pc |-> "loop",
                        curriculum_topics |-> curriculum_topics,
                        duration_weeks |-> duration_weeks,
                        weeks_per_topic |->
                            WeeksPerTopic(subject,
                                          analysis.academic_analysis.favorite_subject,
                                          analysis.academic_analysis.challenging_subject,
                                          duration_weeks, Len(curriculum_topics)),
                        learning_path |->
                            NewLearningPath(path_id, student_name, subject,
                                            duration_weeks, analysis, clock),
                        current_week |-> 1,
                        topic_index |-> 0,
                        args |-> args]
                 /\ ret' = ret
    /\ UNCHANGED <<state, today, clock, store, nextId, appended>>

\* The loop plans the week of the next topic.
plan_next_week ==
    /\ requests.pc = "loop"
    /\ LoopGoesOn(requests)
    /\ requests' = PlanWeek(requests)
    /\ UNCHANGED <<state, today, clock, ret, store, nextId, appended, calls>>

\* The loop is over: the path is stored and the call returns.
create_path_returns ==
    /\ requests.pc = "loop"
    /\ ~LoopGoesOn(requests)
    /\ LET r == StoreLearningPath(state, requests)
       IN  /\ state' = r.state
           /\ ret' = r.ret @@ requests.args
                     @@ [weeks_per_topic_used |-> requests.weeks_per_topic]
    /\ requests' = Idle
    /\ UNCHANGED <<today, clock, store, nextId, appended, calls>>

NextPath == create_path_called \/ plan_next_week \/ create_path_returns

\* A call that has started runs to its end: Python runs the loop and the
\* return without waiting for anything.
SpecPath ==
    /\ InitPath
    /\ [][NextPath]_vars
    /\ WF_vars(plan_next_week)
    /\ WF_vars(create_path_returns)

-----------------------------------------------------------------------------
(* Claims about get_or_create_session, checked under SpecSession *)

Resolved == ret.action = "get_or_create_session"

\* C6: whenever get_or_create_session returns an id, a session document
\* with that id exists in the store for that user; an explicit session_id
\* that has no document is never returned.
C6_ReturnedIdHasDocument ==
    Resolved /\ ~ret.raised => ret.result \in StoredIds(store, ret.user_id)

\* C7: when no explicit id is given (or its fetch failed) and the listing
\* succeeds, the call returns the user's most recently created session and
\* creates nothing if the user has a session, and creates exactly one
\* session, holding the default skeleton, only if the user has none.
C7_MostRecentOrCreateOne ==
    Resolved /\ ret.fetch \in {"skipped", "raise"} /\ ret.list = "listed" =>
        LET mine == store[ret.user_id]
        IN  IF ret.had > 0
            THEN /\ ~ret.raised
                 /\ Len(mine) = ret.had
                 /\ ret.result = mine[Len(mine)].id
            ELSE \/ ret.raised /\ mine = <<>>
                 \/ /\ ~ret.raised
                    /\ Len(mine) = 1
                    /\ mine[1] = [id |-> ret.result, state |-> initialize_default_state]

\* C8: a failure of the explicit-id fetch or of the listing never leaves
\* get_or_create_session: a failed fetch falls through to the listing and a
\* failed listing to the creation; the call raises exactly when the
\* creation fails, and then returns no id.
C8_OnlyCreateFailureRaises ==
    Resolved =>
        /\ ret.raised <=> ret.create = "raise"
        /\ ret.raised <=> ret.result = NoneVal
        /\ ret.fetch = "raise" => ret.list # "skipped"
        /\ ret.list = "raise" => ret.create # "skipped"

\* C8 witness: the fetch and the listing both failed and the call returned
\* the id of a session it created.
C8_Witness ==
    /\ Resolved
    /\ ret.fetch = "raise"
    /\ ret.list = "raise"
    /\ ret.create = "created"
    /\ ~ret.raised
    /\ ret.result \in StoredIds(store, ret.user_id)

-----------------------------------------------------------------------------
(* Claims about interaction_history, checked under SpecHistory *)

LastOf(seq, n) == SubSeq(seq, Len(seq) - n + 1, Len(seq))

Smaller(a, b) == IF a <= b THEN a ELSE b

\* C9: after any number of appends through the manager tools
\* interaction_history holds at most 100 entries, and they are the most
\* recently appended ones in the order they were appended: all of them, up
\* to 100, as long as no data_cleanup was logged.
C9_HistoryCappedToMostRecent ==
    /\ Len(History) <= 100
    /\ Len(History) <= Len(appended)
    /\ History = LastOf(appended, Len(History))
    /\ (\A i \in DOMAIN appended : appended[i].type # "data_cleanup") =>
          Len(History) = Smaller(Len(appended), 100)

\* C9 witness: more than 100 entries were appended, the last of them by
\* update_user_info, and the list holds 100.
C9_Witness ==
    /\ Len(appended) > 100
    /\ Len(History) = 100
    /\ ret.action = "update_user_info"
    /\ History[100].type = "user_info_update"
    /\ History[1] = appended[Len(appended) - 99]

\* A step that keeps the list, or drops entries at its front only as far as
\* the cap of 100 asks for and adds new ones at its end.
AppendOnlyStep(old, new) ==
    \/ new = old
    \/ \E added \in 1..Len(new) :
          LET dropped == Len(old) + added - Len(new)
          IN  /\ dropped >= 0
              /\ dropped <= Len(old)
              /\ dropped > 0 => Len(new) = 100
              /\ SubSeq(new, 1, Len(new) - added) = SubSeq(old, dropped + 1, Len(old))

WipingCall(call) ==
    call.action = "clear_user_data" /\ call.data_type \in {"interactions", "Interactions", "all", "ALL"}

C10_Amended_Step ==
    IF WipingCall(ret')
    THEN /\ Len(History') = 1
         /\ History'[1].type = "data_cleanup"
    ELSE /\ AppendOnlyStep(History, History')
         /\ Len(History') = Smaller(Len(History) + 1, 100)
         /\ History'[Len(History')] \notin {History[i] : i \in DOMAIN History}

-----------------------------------------------------------------------------
(* Claims about save_attendance, checked under SpecAttendance *)

Roster == Get(state, "students_database", EmptyDict)

Records == Get(state, "attendance_records", EmptyDict)

\* Two names denote the same student when they are equal ignoring letter
\* case and surrounding whitespace.
SameStudent(n1, n2) == Lower(Strip(n1)) = Lower(Strip(n2))

Blank(name) == \A i \in DOMAIN name : name[i] = " "

\* The records stored for a student name on a date.
RecordsOf(records, name, d) ==
    {k \in DOMAIN records :
        records[k].date = d /\ SameStudent(records[k].student_name, name)}

\* A step of SpecAttendance that is a call of save_attendance: every other
\* step moves the day.
SaveStep == today' = today /\ ret'.action = "save_attendance"

\* What C1 asks of a step.
C1_Step ==
    SaveStep /\ ~Blank(ret'.raw_name) =>
        LET before == RecordsOf(Records, ret'.raw_name, ret'.date)
            after == RecordsOf(Records', ret'.raw_name, ret'.date)
        IN  /\ Cardinality(after) = 1
            /\ before # {} =>
                  /\ ret'.status = "info"
                  /\ \A k \in before : ret'.existing_record = Records[k]
                  /\ Records' = Records
            /\ ret'.status = "info" =>
                  /\ before # {}
                  /\ \A k \in after : ret'.existing_record = Records'[k]

\* C1: a save_attendance call for a student (in any letter case) and date
\* that already have a record returns status=info carrying that stored
\* record and adds no record; after every call that is not rejected exactly
\* one record is stored for the (date, student) pair of the call, and an
\* info answer carries that one.
C1_SecondSaveIsInfo == [][C1_Step]_vars

\* C1 witness: a second save under another letter case of the name was
\* answered with the record the first save stored.
C1_Witness ==
    /\ ret.action = "save_attendance"
    /\ ret.status = "info"
    /\ ret.raw_name = <<"A", "B">>
    /\ ret.existing_record.student_name = <<"A", "b">>
    /\ Cardinality(DOMAIN Records) = 1

\* What C2, as stated, asks of a step.
C2_Original_Step ==
    SaveStep /\ ret'.status = "info" => Roster' = Roster /\ Records' = Records

\* C2 (as stated): a save_attendance call answered with status=info leaves
\* students_database and attendance_records as they were.
C2_DuplicateSaveIsNoOp == [][C2_Original_Step]_vars

\* What C2, as amended, asks of a step.
C2_Amended_Step ==
    SaveStep /\ ret'.status = "info" =>
        /\ Records' = Records
        /\ ret'.student_id \in DOMAIN Roster
        /\ Roster' =
             [Roster EXCEPT
                ![ret'.student_id].grade =
                    IF ret'.grade_arg \in {NoneVal, ""} THEN @ ELSE ret'.grade_arg]

\* C2 (amended): a save_attendance call answered with status=info leaves
\* attendance_records and every roster entry as they were, except that the
\* grade of the student named becomes the grade argument when one is given.
C2_DuplicateSaveChangesOnlyGrade == [][C2_Amended_Step]_vars

\* C2 witness: a duplicate save that named another grade than the stored
\* one was answered with status=info.
C2_Witness ==
    /\ ret.action = "save_attendance"
    /\ ret.status = "info"
    /\ ret.grade_arg = "5"
    /\ ret.existing_record.grade = "Not specified"
    /\ Roster[ret.student_id].grade = "5"

\* The id of the n-th roster entry, spelled out.
ExpectedStudentId(n) ==
    CASE n = 1 -> "student_0001"
      [] n = 2 -> "student_0002"
      [] n = 3 -> "student_0003"

RosterWellFormed(db) ==
    /\ DOMAIN db = {ExpectedStudentId(i) : i \in 1..Cardinality(DOMAIN db)}
    /\ \A a, b \in DOMAIN db : a # b => Lower(db[a].name) # Lower(db[b].name)

\* What C3 asks of a step.
C3_Step ==
    /\ RosterWellFormed(Roster')
    /\ SaveStep /\ ~Blank(ret'.raw_name) =>
        LET n == Cardinality(DOMAIN Roster)
            known == {sid \in DOMAIN Roster :
                        SameStudent(Roster[sid].name, ret'.raw_name)}
            new == ExpectedStudentId(n + 1)
        IN  IF known = {}
            THEN /\ DOMAIN Roster' = DOMAIN Roster \cup {new}
                 /\ new \notin DOMAIN Roster
                 /\ ret'.student_id = new
                 /\ SameStudent(Roster'[new].name, ret'.raw_name)
                 /\ ret'.grade_arg = NoneVal => Roster'[new].grade = "Not specified"
                 /\ \A sid \in DOMAIN Roster : Roster'[sid].name = Roster[sid].name
            ELSE /\ DOMAIN Roster' = DOMAIN Roster
                 /\ ret'.student_id \in known

\* C3: no two roster entries have names equal ignoring letter case (or share
\* an id); a save for a name not in a roster of n entries adds exactly one
\* entry, under student_<n+1 in 4 digits>, with grade 'Not specified' when
\* no grade is given; a save for a rostered name, in any letter case or with
\* surrounding whitespace, adds no entry.
C3_RosterIdsAndNames == [][C3_Step]_vars

\* C3 witness: a second student was added under student_0002 and a later
\* save named the first one with other case and surrounding whitespace.
C3_Witness ==
    /\ DOMAIN Roster = {"student_0001", "student_0002"}
    /\ ret.action = "save_attendance"
    /\ ret.raw_name = <<" ", "a", "B", " ">>
    /\ ret.student_id \in DOMAIN Roster
    /\ Roster[ret.student_id].name = <<"A", "b">>

\* The records of a student id, and what C4 asks of a step.
RecordsOfId(records, sid) == {k \in DOMAIN records : records[k].student_id = sid}

C4_Step ==
    /\ \A sid \in DOMAIN Roster' :
          Roster'[sid].total_attendance_days =
              Cardinality({Records'[k].date : k \in RecordsOfId(Records', sid)})
    /\ SaveStep /\ ret'.status = "success" =>
        LET sid == ret'.student_id
            key == ret'.date \o "_" \o sid
            old == IF sid \in DOMAIN Roster
                   THEN Roster[sid].total_attendance_days ELSE 0
        IN  /\ key \notin DOMAIN Records
            /\ DOMAIN Records' = DOMAIN Records \cup {key}
            /\ \A k \in DOMAIN Records : Records'[k] = Records[k]
            /\ Records'[key].status = "present"
            /\ Records'[key].student_id = sid
            /\ Records'[key].date = ret'.date
            /\ ret'.date = IF ret'.date_arg = NoneVal THEN today ELSE ret'.date_arg
            /\ Roster'[sid].total_attendance_days = old + 1
            /\ Roster'[sid].last_attendance = ret'.date

\* C4: a save_attendance call that returns status=success inserts exactly
\* one record, with status 'present', under the key date_studentId, raises
\* the student's total_attendance_days by exactly 1 and sets last_attendance
\* to the date of the call; so the counter of every student equals the
\* number of dates saved for that student.
C4_SuccessAddsOneRecord == [][C4_Step]_vars

\* C4 witness: the same student saved on a second day has two records and a
\* counter of 2.
C4_Witness ==
    /\ ret.action = "save_attendance"
    /\ ret.status = "success"
    /\ ret.student_info.total_attendance_days = 2
    /\ Cardinality(RecordsOfId(Records, ret.student_id)) = 2
    /\ ret.date = "2025-01-02"

\* What C5 asks of a step.
C5_Step ==
    SaveStep /\ Blank(ret'.raw_name) =>
        /\ ret'.status = "error"
        /\ state' = state

\* C5: save_attendance with an empty or whitespace-only name returns
\* status=error and leaves students_database and attendance_records as they
\* were.
C5_EmptyNameRejected == [][C5_Step]_vars

\* C5 witness: a whitespace-only name was rejected on a session that has a
\* roster and records.
C5_Witness ==
    /\ ret.action = "save_attendance"
    /\ ret.status = "error"
    /\ ret.raw_name = <<" ">>
    /\ DOMAIN Roster # {}
    /\ DOMAIN Records # {}

-----------------------------------------------------------------------------
(* Claims about the evaluation agent, checked under SpecEvaluation *)

EvalStep(action) == ret'.action = action /\ calls' = calls + 1

QuestionTypes(session) == {session.questions[i].type : i \in DOMAIN session.questions}

StatusMatchesIndex(sessions) ==
    \A id \in DOMAIN sessions :
        /\ sessions[id].status \in {"in_progress", "completed"}
        /\ sessions[id].status = "completed"
              <=> sessions[id].current_question_index = Len(sessions[id].questions)

CompletedIsTerminal ==
    \A id \in DOMAIN EvaluationSessions :
        EvaluationSessions[id].status = "completed"
        => /\ id \in DOMAIN EvaluationSessions'
           /\ EvaluationSessions'[id].status = "completed"
           /\ EvaluationSessions'[id].current_question_index
                  = EvaluationSessions[id].current_question_index
           /\ EvaluationSessions'[id].answers = EvaluationSessions[id].answers
           /\ (EvalStep("record_evaluation_answer") /\ ret'.session_id_arg = id)
                  => ret'.status = "error"

C11_Step ==
    /\ StatusMatchesIndex(EvaluationSessions')
    /\ EvalStep("start_student_evaluation")
          => EvaluationSessions'[ret'.session_id].status = "in_progress"
    /\ CompletedIsTerminal

\* C11: a session is in_progress from its start until its last question is
\* answered; status = completed exactly when current_question_index equals
\* the number of questions; once a session is completed no operation
\* changes its status, index or answers, and record_evaluation_answer on it
\* returns an error.
C11_CompletedIsTerminal == [][C11_Step]_vars

\* The answer a successful record_evaluation_answer stores and the index it
\* leaves, and what an unknown session id does.
RecordsAndAdvances ==
    EvalStep("record_evaluation_answer")
    => IF ret'.status \in {"continuing", "completed"}
       THEN LET id == ret'.session_id_arg
                old == EvaluationSessions[id]
                new == EvaluationSessions'[id]
                type == old.questions[old.current_question_index + 1].type
            IN  /\ new.current_question_index = old.current_question_index + 1
                /\ DOMAIN new.answers = DOMAIN old.answers \cup {type}
                /\ new.answers[type].answer = StrStrip(ret'.answer_arg)
                /\ \A t \in DOMAIN old.answers \ {type} :
                       new.answers[t] = old.answers[t]
       ELSE /\ ret'.status = "error"
            /\ state' = state

UnknownSessionIsError ==
    (EvalStep("record_evaluation_answer")
        /\ ret'.session_id_arg \notin DOMAIN EvaluationSessions)
    => ret'.status = "error" /\ state' = state

IndexCountsAnswers(sessions) ==
    \A id \in DOMAIN sessions :
        /\ sessions[id].current_question_index \in 0..15
        /\ Cardinality(DOMAIN sessions[id].answers) = sessions[id].current_question_index

C12_Common ==
    /\ RecordsAndAdvances
    /\ UnknownSessionIsError
    /\ IndexCountsAnswers(EvaluationSessions')

Continuing == EvalStep("record_evaluation_answer") /\ ret'.status = "continuing"

C12_Original_Step ==
    /\ C12_Common
    /\ Continuing
          => LET new == EvaluationSessions'[ret'.session_id_arg]
             IN  ret'.progress_tenths * Len(new.questions)
                     = 1000 * new.current_question_index

\* C12 (as stated): each successful record_evaluation_answer stores the
\* answer under the type key of the current question and raises the index
\* by exactly 1; 0 <= index <= 15 and the number of answers equals the
\* index; the percent-complete figure returned with the next question is
\* index / total * 100 with the index after the advance; an unknown session
\* id returns an error and changes no session.
C12_AnswerAdvancesIndex == [][C12_Original_Step]_vars

C12_Amended_Step ==
    /\ C12_Common
    /\ Continuing
          => LET new == EvaluationSessions'[ret'.session_id_arg]
                 exact == 1000 * new.current_question_index
                 given == ret'.progress_tenths * Len(new.questions)
             IN  /\ 2 * (given - exact) <= Len(new.questions)
                 /\ 2 * (exact - given) <= Len(new.questions)

\* C12 (amended): as C12, except that the percent-complete figure is
\* index / total * 100 rounded to one decimal place (the nearest tenth of a
\* percent), computed with the index after the advance.
C12_AnswerAdvancesIndexRounded == [][C12_Amended_Step]_vars

\* C12 witness: the second answer of a session was recorded and 13.3 percent
\* (2 of 15, which is 13.33...) was returned.
C12_Witness ==
    /\ ret.action = "record_evaluation_answer"
    /\ ret.status = "continuing"
    /\ EvaluationSessions[ret.session_id].current_question_index = 2
    /\ ret.progress_tenths = 133

C13_Step ==
    (EvalStep("record_evaluation_answer")
        /\ ret'.session_id_arg \in DOMAIN EvaluationSessions
        /\ EvaluationSessions[ret'.session_id_arg].current_question_index = 14)
    => LET id == ret'.session_id_arg
           session == EvaluationSessions'[id]
           name == session.student_name
       IN  /\ ret'.status = "completed"
           /\ session.status = "completed"
           /\ "completion_time" \in DOMAIN session
           /\ session.completion_time = NowIso(clock)
           /\ name \in DOMAIN StudentProfiles'
           /\ StudentProfiles'[name].last_evaluation = id
           /\ StudentProfiles'[name].raw_answers = session.answers
           /\ DOMAIN StudentProfiles'[name].raw_answers = QuestionTypes(session)
           /\ StudentProfiles'[name].raw_answers["career_aspirations"].answer
                  = StrStrip(ret'.answer_arg)
           /\ StudentProfiles'[name].analysis.session_id = id

\* C13: when the final (15th) answer of a session is recorded, the same
\* call stamps a completion time and runs the analysis: on return
\* student_profiles holds under the session's student name a profile whose
\* last_evaluation is that session and whose raw_answers hold an answer for
\* every question, the last one included; it replaces any earlier profile
\* of that name.
C13_LastAnswerStoresProfile == [][C13_Step]_vars

\* C13 witness: the second evaluation of 'Ab' was completed and its profile
\* replaced the one of the first evaluation.
C13_Witness ==
    /\ ret.action = "record_evaluation_answer"
    /\ ret.status = "completed"
    /\ ret.session_id = EvalSessionId(2, <<"A", "b">>)
    /\ EvalSessionId(1, <<"A", "b">>) \in DOMAIN EvaluationSessions
    /\ EvaluationSessions[EvalSessionId(1, <<"A", "b">>)].status = "completed"
    /\ StudentProfiles["Ab"].last_evaluation = ret.session_id
    /\ StudentProfiles["Ab"].raw_answers["career_aspirations"].answer = "I get angry but ask"

OthersUnchanged(id) ==
    \A other \in DOMAIN EvaluationSessions \ {id} :
        /\ other \in DOMAIN EvaluationSessions'
        /\ EvaluationSessions'[other] = EvaluationSessions[other]

C14_Step ==
    /\ EvalStep("start_student_evaluation")
          => /\ ret'.session_id \notin DOMAIN EvaluationSessions
             /\ ret'.session_id \in DOMAIN EvaluationSessions'
             /\ \A id \in DOMAIN EvaluationSessions :
                    /\ id \in DOMAIN EvaluationSessions'
                    /\ EvaluationSessions'[id] = EvaluationSessions[id]
    /\ EvalStep("record_evaluation_answer") => OthersUnchanged(ret'.session_id_arg)

\* C14: every start_student_evaluation call, also a repeated one for the
\* same student within the same clock second, creates a session whose id
\* differs from every existing session id and leaves the existing sessions
\* unchanged; recording an answer in one session never changes another.
C14_StartCreatesFreshSession == [][C14_Step]_vars

-----------------------------------------------------------------------------
(* Claims about the progress analyzer, checked under SpecProgress *)

ProgressAnalyses == Get(state, "progress_analyses", EmptyDict)

InRoster(student_name) ==
    \E id \in DOMAIN Roster : Lower(Roster[id].name) = Lower(student_name)

KeepsAnalyses ==
    \A id \in DOMAIN ProgressAnalyses :
        /\ id \in DOMAIN ProgressAnalyses'
        /\ ProgressAnalyses'[id] = ProgressAnalyses[id]

C15_Step ==
    /\ KeepsAnalyses
    /\ ret'.action = "analyze_student_progress" /\ calls' = calls + 1
          => IF InRoster(ret'.student_name_arg)
             THEN /\ ret'.status = "success"
                  /\ ret'.analysis_id \notin DOMAIN ProgressAnalyses
                  /\ DOMAIN ProgressAnalyses'
                         = DOMAIN ProgressAnalyses \cup {ret'.analysis_id}
             ELSE /\ ret'.status = "not_found"
                  /\ state' = state

\* C15: progress_analyses only grows: each analyze_student_progress call
\* that returns success adds exactly one new entry and no existing entry is
\* ever replaced or removed, also for two analyses of the same student
\* within the same clock second and for a later clear_user_data call; an
\* analysis for a student not in the roster returns not_found and stores
\* nothing.
C15_AnalysesOnlyGrow == [][C15_Step]_vars

-----------------------------------------------------------------------------
(* Claims about the cleanup pass, checked under SpecClean *)

\* C17: after any tool call returns, every value of the session document
\* is JSON-serializable (a bytes, date/time or object value that was present
\* has been replaced by a string), so serializing the document to JSON and
\* parsing it back yields an equal document.
C17_DocumentIsJson ==
    ret.action # "none"
    => \A k \in DOMAIN state \cap ExtraKeys :
           /\ Dumpable(state[k])
           /\ JsonRoundTrip(state[k]) = state[k]

-----------------------------------------------------------------------------
(* Claims about failing calls, checked under SpecErrors *)

\* C18: no tool and no endpoint lets an exception reach its caller: whatever
\* the input and whatever the store does, the call returns a value, and the
\* value of a call that failed has status 'error' and a message.
C18_NoExceptionPropagates ==
    ret.action # "none" =>
        /\ ~ret.out.raised
        /\ ret.failed =>
              /\ Get(ret.out.value, "status", NoneVal) = "error"
              /\ "message" \in DOMAIN ret.out.value

-----------------------------------------------------------------------------
(* Claims about get_attendance_summary, checked under SpecSummary *)

Summarised == ret.action = "get_attendance_summary"

\* The roster entry a name belongs to, by the case-insensitive match of the
\* stored name; NoneVal when the roster has none.
RosterIdOf(chars) ==
    LET students_db == Get(state, "students_database", EmptyDict)
        hits == {sid \in DOMAIN students_db :
                    Lower(students_db[sid].name) = Lower(chars)}
    IN  IF hits = {} THEN NoneVal ELSE CHOOSE sid \in hits : TRUE

\* The stored records of a student that qualify for a call: their date is a
\* day d with day - window <= d <= day.
Qualifying(student_id, day, window) ==
    LET attendance_records == Get(state, "attendance_records", EmptyDict)
    IN  {k \in DOMAIN attendance_records :
            /\ attendance_records[k].student_id = student_id
            /\ \E d \in DOMAIN Days :
                  /\ Days[d] = attendance_records[k].date
                  /\ DayNo(day) - window <= d
                  /\ d <= DayNo(day)}

\* The figures the claim gives for a student: the qualifying records, those
\* of them marked present, and present / total * 100 (0 when none).
FiguresAreExact(figures, student_id, day, window) ==
    LET attendance_records == Get(state, "attendance_records", EmptyDict)
        qualifying == Qualifying(student_id, day, window)
        present == {k \in qualifying : attendance_records[k].status = "present"}
    IN  /\ figures.total_days = Cardinality(qualifying)
        /\ figures.present_days = Cardinality(present)
        /\ figures.attendance_percentage * Cardinality(qualifying)
              = 100 * 100 * Cardinality(present)
        /\ qualifying = {} => figures.attendance_percentage = 0

\* C19: the summary of a rostered student counts exactly the student's
\* records dated within [today - windowDays, today], both ends included,
\* reports present / total * 100, and reports 0 in a normal summary when no
\* record qualifies; without a student it gives one such summary for every
\* roster entry.
C19_SummaryCountsWindow ==
    Summarised =>
        LET arg == ret.student_name_arg
            given == arg.py = "str" /\ arg.chars # <<>>
            students_db == Get(state, "students_database", EmptyDict)
        IN  /\ given /\ RosterIdOf(arg.chars) # NoneVal =>
                  /\ "summary" \in DOMAIN ret
                  /\ FiguresAreExact(ret.summary, RosterIdOf(arg.chars),
                                     ret.today_arg, ret.date_range_days_arg)
            /\ ~given =>
                  /\ "summaries" \in DOMAIN ret
                  /\ Len(ret.summaries) = Cardinality(DOMAIN students_db)
                  /\ \A sid \in DOMAIN students_db :
                        \E i \in DOMAIN ret.summaries :
                            /\ ret.summaries[i].student_id = sid
                            /\ FiguresAreExact(ret.summaries[i], sid, ret.today_arg,
                                               ret.date_range_days_arg)

-----------------------------------------------------------------------------
(* Claims about the overall progress score, checked under SpecScore *)

Scored == ret.action = "calculate_overall_progress_score"

\* The engagement value the claim names for a level; no data when the level
\* is missing.
ClaimedEngagement(games_data) ==
    LET level == Get(games_data, "engagement_level", "no_data")
    IN  CASE level = "low" -> 40
          [] level = "moderate" -> 70
          [] level = "high" -> 85
          [] level = "no_data" -> 50

\* 0.4 * attendance + 0.4 * quiz average + 0.2 * engagement, in thousandths.
ClaimedScoreThousandths ==
    4 * state.attendance_analysis.attendance_percentage
    + 4 * state.mcq_performance.average_score
    + 2 * 100 * ClaimedEngagement(state.games)

\* For attendance and quiz average within 0..100 the score is within
\* 0..100, and 90 / 80 / high gives 85.0.
C20_Common ==
    /\ 0 <= ret.overall_score /\ ret.overall_score <= 10000
    /\ /\ state.attendance_analysis.attendance_percentage = 9000
       /\ state.mcq_performance.average_score = 8000
       /\ Get(state.games, "engagement_level", "no_data") = "high"
       => ret.overall_score = 8500

\* C20 as stated: the overall score equals 0.4 * attendance percentage
\* + 0.4 * quiz average + 0.2 * engagement value (low 40, moderate 70,
\* high 85, no data 50), lies within 0..100, and is 85.0 for 90 / 80 / high.
C20_ScoreIsWeightedSum ==
    Scored => /\ 10 * ret.overall_score = ClaimedScoreThousandths
              /\ C20_Common

\* C20, amended: the overall score equals that weighted sum rounded to two
\* decimal places, lies within 0..100, and is 85.0 for 90 / 80 / high.
C20_ScoreIsRoundedWeightedSum ==
    Scored => /\ 10 * ret.overall_score - 5 < ClaimedScoreThousandths
              /\ ClaimedScoreThousandths < 10 * ret.overall_score + 5
              /\ C20_Common

\* The example of the claim has been scored: 90, 80 and high give 85.0.
C20_Witness ==
    /\ Scored
    /\ state.attendance_analysis.attendance_percentage = 9000
    /\ state.mcq_performance.average_score = 8000
    /\ Get(state.games, "engagement_level", "no_data") = "high"
    /\ ret.overall_score = 8500

-----------------------------------------------------------------------------
(* Claims about session_count, checked under SpecHistory *)

\* The update_user_info calls made so far: the entries they logged.
UpdateCalls ==
    Cardinality({i \in DOMAIN appended : appended[i].type = "user_info_update"})

C21_Step ==
    /\ IF ret'.action = "update_user_info"
       THEN /\ state'.session_count = state.session_count + 1
            /\ History'[Len(History')].type = "user_info_update"
            /\ History'[Len(History')].session_count = state'.session_count
       ELSE state'.session_count = state.session_count
    /\ state'.session_count = UpdateCalls'

\* C21: session_count is 0 in a new default session, grows by exactly 1 on
\* each update_user_info call and is left alone by every other tool,
\* clear_user_data with any data_type included; so it equals the number of
\* update_user_info calls made, and the entry update_user_info logs carries
\* the incremented value.
C21_SessionCountCountsUpdates ==
    /\ initialize_default_state.session_count = 0
    /\ state.session_count = 0
    /\ [][C21_Step]_vars

\* update_user_info was called, everything was cleared, and update_user_info
\* was called again: the count is 2.
C21_Witness ==
    /\ ret.action = "update_user_info"
    /\ state.session_count = 2
    /\ \E i \in DOMAIN appended : appended[i].details = "Cleared all data"

-----------------------------------------------------------------------------
(* Claims about the command-line loop and the store, checked under SpecCli *)

\* The lines the claim calls commands.
IsListedCommand(line) ==
    \/ line \in {"help", "sessions", "new", "state", "backup", "clear",
                 "exit", "quit", "q"}
    \/ /\ Len(Split(line)) = 2
       /\ Split(line)[1] = "switch"

\* C22: a non-empty line is treated as a command only when it is one of
\* help, sessions, switch <id>, new, state, backup, clear, exit, quit or q;
\* every other line goes to the agent dispatcher and creates no session,
\* switches no session and is not rejected as an unknown command.
C22_OnlyCommandsAreCommands ==
    ret.action = "cli" /\ ret.line # "" /\ ~IsListedCommand(ret.line) =>
        /\ ret.handled = "agent"
        /\ store = ret.had
        /\ state.session_id = ret.was

\* The turn just taken was a 'switch' or a 'new' that failed: the store
\* refused the call, or the session asked for is not one of the user's.
FailedSwitchOrNew ==
    /\ ret'.action = "cli"
    /\ \/ ret'.handled \in {"switch failed", "new failed"}
       \/ /\ ret'.handled = "switch"
          /\ Split(ret'.line)[2] \notin StoredIds(store, state.user_id)

\* What the operations leave of the store: every stored session stays.
StoreKeepsSessions ==
    \A u \in Users :
        /\ StoredIds(store, u) \subseteq StoredIds(store', u)
        /\ \A i \in DOMAIN store[u] : store'[u][i] = store[u][i]

C23_Step ==
    /\ StoreKeepsSessions
    /\ ret'.action = "delete_session" =>
          /\ store' = store
          /\ ret'.message = "Session deletion not implemented in current ADK version"
    /\ ret'.action = "cleanup_old_sessions" => store' = store
    /\ FailedSwitchOrNew =>
          state'.session_id = state.session_id /\ store' = store

\* C23: no operation of the HTTP API, the command line or the session
\* utilities removes a session, so the sessions stored for a user never
\* shrink; the delete endpoint answers that deletion is not implemented and
\* leaves the store as it is, cleanup_old_sessions only reports, and a failed
\* 'switch' or 'new' keeps the current session id.
C23_NoSessionIsRemoved == [][C23_Step]_vars

-----------------------------------------------------------------------------
(* Claims about the emotional analysis, checked under SpecEmotion *)

\* The answer a profile holds for the emotional-response question, as the
\* analysis reads it.
EmotionalResponseOf(profile) ==
    LowerWord(AnswerOf(profile.raw_answers, "emotional_response"))

\* The priority the claim states.
ClaimedStability(response) ==
    CASE Contains(response, "frustrated") \/ Contains(response, "angry") -> "needs_support"
      [] OTHER ->
    CASE Contains(response, "sad") \/ Contains(response, "give up") -> "low_confidence"
      [] OTHER ->
    CASE Contains(response, "ask") \/ Contains(response, "help") -> "help_seeking"
      [] OTHER -> "stable"

\* C24: the analysis sets emotional_stability from the emotional-response
\* answer by a fixed priority: needs_support when it contains 'frustrated' or
\* 'angry', whatever else it contains, otherwise low_confidence for 'sad' or
\* 'give up', otherwise help_seeking for 'ask' or 'help', otherwise stable;
\* so a completed evaluation whose emotional-response answer contains
\* 'frustrated' has a profile with emotional_stability = needs_support.
C24_EmotionalStabilityByPriority ==
    /\ \A name \in DOMAIN StudentProfiles :
          StudentProfiles[name].analysis.emotional_analysis.emotional_stability
              = ClaimedStability(EmotionalResponseOf(StudentProfiles[name]))
    /\ LET session == EvaluationSessions[EmotionSessionId]
       IN  /\ session.status = "completed"
           /\ Contains(LowerWord(AnswerOf(session.answers, "emotional_response")),
                       "frustrated")
           => /\ session.student_name \in DOMAIN StudentProfiles
              /\ StudentProfiles[session.student_name].analysis
                     .emotional_analysis.emotional_stability = "needs_support"

\* The evaluation is complete and its emotional-response answer holds
\* 'frustrated' together with keywords of the two lower ranks.
C24_Witness ==
    /\ EvaluationSessions[EmotionSessionId].status = "completed"
    /\ "Ab" \in DOMAIN StudentProfiles
    /\ LET response == EmotionalResponseOf(StudentProfiles["Ab"])
       IN  /\ Contains(response, "frustrated")
           /\ Contains(response, "sad")
           /\ Contains(response, "ask")
    /\ StudentProfiles["Ab"].analysis.emotional_analysis.emotional_stability
           = "needs_support"

-----------------------------------------------------------------------------
(* Claims about clear_user_data and the roster, checked under SpecClear *)

\* The keys of the default skeleton.
SkeletonKeys == DOMAIN initialize_default_state

\* The key a data_type names.
NamedKey(data_type) ==
    CASE data_type = "interactions" -> "interaction_history"
      [] data_type = "attendance" -> "attendance_records"
      [] data_type = "preferences" -> "preferences"

\* The last entry of the history is the log of the call.
OneCleanupLogged(before, after) ==
    /\ Len(after) = Len(before) + 1
    /\ SubSeq(after, 1, Len(before)) = before
    /\ after[Len(after)].type = "data_cleanup"

C25_ClearAll ==
    /\ DOMAIN state' = SkeletonKeys
    /\ state'.user_name = Get(state, "user_name", "")
    /\ state'.user_role = Get(state, "user_role", "")
    /\ state'.session_count = Get(state, "session_count", 0)
    /\ state'.preferences = DefaultPreferences
    /\ state'.attendance_records = EmptyDict
    /\ OneCleanupLogged(<<>>, state'.interaction_history)

C25_ClearOne(data_type) ==
    /\ DOMAIN state' = DOMAIN state
    /\ \A key \in DOMAIN state \ {NamedKey(data_type), "interaction_history"} :
          state'[key] = state[key]
    /\ OneCleanupLogged(IF data_type = "interactions" THEN <<>>
                        ELSE state.interaction_history,
                        state'.interaction_history)
    /\ data_type = "attendance" => state'.attendance_records = EmptyDict
    /\ data_type = "preferences" => state'.preferences = DefaultPreferences

\* A step that is a clear_user_data call leaves what the claim says.
C25_Step ==
    calls' = calls + 1 /\ ret'.action = "clear_user_data" =>
        /\ ret'.data_type = "all" => C25_ClearAll
        /\ ret'.data_type \in {"interactions", "attendance", "preferences"}
              => C25_ClearOne(ret'.data_type)

\* C25: after clear_user_data('all') the session document has exactly the
\* keys of the default skeleton: user_name, user_role and session_count as
\* before the call, the default preferences, no attendance records and a
\* history of one entry, the data_cleanup log of the call; every other key is
\* gone.  With 'interactions', 'attendance' or 'preferences' only the named
\* key changes, plus the one log entry appended.
C25_ClearAllLeavesSkeleton == [][C25_Step]_vars

\* The attendance records of the session.
AttendanceRecords == Get(state, "attendance_records", EmptyDict)

\* C26: after any sequence of save_attendance and clear_user_data calls,
\* every attendance record's student_id names a roster entry, and each roster
\* entry's total_attendance_days is the number of stored attendance records
\* with that entry's id.
C26_RosterMatchesRecords ==
    /\ \A key \in DOMAIN AttendanceRecords :
          AttendanceRecords[key].student_id \in DOMAIN Roster
    /\ \A id \in DOMAIN Roster :
          Roster[id].total_attendance_days
              = Cardinality({key \in DOMAIN AttendanceRecords :
                                AttendanceRecords[key].student_id = id})

-----------------------------------------------------------------------------
(* Claims about student_profiles, checked under SpecEvaluation *)

\* C27: in every reachable state each entry of student_profiles has a
\* last_evaluation naming an evaluation session whose status is completed: no
\* sequence of the evaluation agent's tools creates or overwrites a profile
\* from a session that is still in_progress, so that
\* create_personalized_learning_path, which needs a profile, can succeed for
\* a student only after an evaluation of that student has completed.
C27_ProfilesComeFromCompletedSessions ==
    \A name \in DOMAIN StudentProfiles :
        /\ StudentProfiles[name].last_evaluation \in DOMAIN EvaluationSessions
        /\ EvaluationSessions[StudentProfiles[name].last_evaluation].status
               = "completed"

-----------------------------------------------------------------------------
(* Claims about concurrent save_attendance calls, checked under SpecRace *)

\* The two calls were for two different students, both new to the roster,
\* ran concurrently (each was between its read and its write when the other
\* read), and both have returned success.
TwoNewStudentsConcurrently ==
    /\ \A r \in Requests :
          /\ requests[r].pc = "done"
          /\ requests[r].status = "success"
          /\ requests[r].was_new
          /\ requests[r].overlapped
    /\ NormalizeName(requests["r1"].raw_name) # NormalizeName(requests["r2"].raw_name)

\* C28: when two save_attendance calls for two different students, both new
\* to the roster, run concurrently on the same session document, the two
\* students get distinct ids, both roster entries are in students_database
\* afterwards, and each attendance record refers to the student it was saved
\* for.
C28_ConcurrentNewStudents ==
    TwoNewStudentsConcurrently =>
        /\ requests["r1"].student_id # requests["r2"].student_id
        /\ \A r \in Requests :
              LET id == requests[r].student_id
              IN  /\ id \in DOMAIN Roster
                  /\ Roster[id].name = NormalizeName(requests[r].raw_name)
                  /\ \E k \in DOMAIN AttendanceRecords :
                        /\ AttendanceRecords[k].student_id = id
                        /\ AttendanceRecords[k].student_name
                               = NormalizeName(requests[r].raw_name)

-----------------------------------------------------------------------------
(* Claims about the dates save_attendance stores, checked under SpecSummary *)

\* C29: every record stored by save_attendance has a date that
\* get_attendance_summary can evaluate: after any sequence of save_attendance
\* calls with any date_str, get_attendance_summary for a rostered student,
\* and for all students, returns a summary and never status = error.
C29_StoredDatesCanBeSummarised ==
    /\ \A key \in DOMAIN Records : IsIsoDate(Records[key].date)
    /\ Summarised =>
          LET arg == ret.student_name_arg
              given == arg.py = "str" /\ arg.chars # <<>>
          IN  /\ given /\ RosterIdOf(arg.chars) # NoneVal =>
                    /\ Get(ret, "status", "success") # "error"
                    /\ "summary" \in DOMAIN ret
              /\ ~given =>
                    /\ Get(ret, "status", "success") # "error"
                    /\ "summaries" \in DOMAIN ret

-----------------------------------------------------------------------------
(* Claims about create_personalized_learning_path, checked under SpecPath *)

LearningPaths == Get(state, "learning_paths", EmptyDict)

\* A weekly plan covers a prefix of the topics in their order, one plan a
\* topic, from week 1 on in steps of weeks_per_topic, within duration_weeks.
PlanIsPrefix(weekly_plan, curriculum_topics, weeks_per_topic, duration_weeks) ==
    /\ Len(weekly_plan) <= Len(curriculum_topics)
    /\ \A i \in DOMAIN weekly_plan :
          /\ weekly_plan[i].topic = curriculum_topics[i]
          /\ weekly_plan[i].week = 1 + (i - 1) * weeks_per_topic
          /\ weekly_plan[i].week <= duration_weeks

\* In the loop and at the return the step is 1 or more and the plan is as
\* the claim says.
C30_PlanInvariant ==
    /\ requests.pc = "loop" =>
          /\ requests.weeks_per_topic >= 1
          /\ PlanIsPrefix(requests.learning_path.weekly_plan,
                          requests.curriculum_topics,
                          requests.weeks_per_topic, requests.duration_weeks)
    /\ ret.action = "create_personalized_learning_path" /\ ret.status = "success" =>
          /\ ret.weeks_per_topic_used >= 1
          /\ ret.topics_arg # <<>>
          /\ ret.path_id \in DOMAIN LearningPaths
          /\ PlanIsPrefix(ret.learning_path.weekly_plan, ret.topics_arg,
                          ret.weeks_per_topic_used, ret.duration_weeks_arg)

\* A call with an empty topic list plans nothing: it returns an error at
\* once and stores nothing.
C30_EmptyTopicsStep ==
    calls' = calls + 1 =>
        /\ requests'.pc = "loop" => requests'.curriculum_topics # <<>>
        /\ requests'.pc = "idle" /\ ret'.topics_arg = <<>> =>
              /\ ret'.status = "error"
              /\ state' = state

\* C30: the week-planning loop of create_personalized_learning_path ends for
\* every non-empty topic list and every duration_weeks (the step
\* weeks_per_topic is at least 1, also after the slower and the faster pace);
\* the weekly_plan covers a prefix of curriculum_topics in their order, one
\* plan per topic, with weeks from 1 on in steps of exactly weeks_per_topic
\* and never beyond duration_weeks; an empty topic list gives status error
\* and stores no learning path.
C30_PlanningLoopTerminates ==
    /\ []C30_PlanInvariant
    /\ [][C30_EmptyTopicsStep]_vars
    /\ (requests.pc = "loop") ~> (requests.pc = "idle")

\* A path of the faster pace has been stored with three topics planned, the
\* step being 1.
C30_Witness ==
    /\ ret.action = "create_personalized_learning_path"
    /\ ret.status = "success"
    /\ ret.subject_arg = "art"
    /\ ret.weeks_per_topic_used = 1
    /\ Len(ret.learning_path.weekly_plan) = 3
    /\ ret.path_id \in DOMAIN LearningPaths

=============================================================================
